---- MODULE Spec2Model ----
(***************************************************************************)
(* Model of the trace-context identifier subsystem of caser789/logger      *)
(* (internal/trace): the 32-byte identifier, its flag byte, root           *)
(* generation, parent -> child derivation under the per-instance mutex,    *)
(* and the byte / string codecs.                                           *)
(*                                                                         *)
(* Bytes are naturals 0..255, byte slices are sequences (1-based, so Go's  *)
(* index i is i+1 here), strings are sequences of one-character strings.   *)
(***************************************************************************)
EXTENDS Integers, Sequences, FiniteSets, TLC

\* ------------------------------------------------------------------------
\* Bounds of the model
\* ------------------------------------------------------------------------
\* SpanContext instances alive at once in the derivation specification.
MaxCtx == 3
\* Goroutines calling NewChildSpanContext concurrently.
NumProcs == 2
\* SpanContext instances alive at once in the decoder and codec specifications.
MaxUnitCtx == 1
\* SetGlobalTracer calls in a run
MaxStores == 2
\* NoopSpans made in a run
MaxSpans == 3
\* SetLevel calls of the user in a run
MaxSetLevel == 2

\* ------------------------------------------------------------------------
\* Constants of span.go
\* ------------------------------------------------------------------------
traceIDSize == 16
spanIDSize == 8
totalIDSize == traceIDSize + spanIDSize * 2

flagBitsTotal == 8
flagBitsTypeMarker == 3
flagBitsNonTypeMarker == flagBitsTotal - flagBitsTypeMarker

traceFlagOldDebug == 1
traceFlagSampled == 2 ^ 1
traceFlagCritical == 2 ^ 2
typeMarkerForOldFormat == 0 * (2 ^ 5)
typeMarkerForDebug == 2 * (2 ^ 5)
typeMarkerForStressTest == 3 * (2 ^ 5)
typeMarkerForShadow == 4 * (2 ^ 5)
typeMarkerMask == 7 * (2 ^ 5)

\* The nil SpanContext interface value.
Nil == [nil |-> TRUE]

\* ------------------------------------------------------------------------
\* Go's integer operators on uint8 / uint16
\* ------------------------------------------------------------------------
Bit(a, k) == (a \div (2 ^ k)) % 2

RECURSIVE AndBits(_, _, _)
AndBits(a, b, k) ==
    IF k = flagBitsTotal THEN 0
    ELSE Bit(a, k) * Bit(b, k) * (2 ^ k) + AndBits(a, b, k + 1)

\* a & b on bytes
And8(a, b) == AndBits(a, b, 0)
\* a | b on bytes
Or8(a, b) == a + b - And8(a, b)
\* ^a on bytes
Not8(a) == 255 - a
\* byte(x): the conversion keeps the low 8 bits
ToByte(x) == x % 256
\* uint8 addition wraps
AddU8(a, b) == (a + b) % 256
\* uint16 addition wraps
AddU16(a, b) == (a + b) % 65536

\* n copies of x
Rep(x, n) == [i \in 1..n |-> x]

\* copy(dst[off:], src): src written into dst from Go offset off, cut at len(dst)
CopyAt(dst, off, src) ==
    [i \in 1..Len(dst) |->
        IF i > off /\ i - off <= Len(src) THEN src[i - off] ELSE dst[i]]

\* ------------------------------------------------------------------------
\* encoding/hex as span.go uses it
\* ------------------------------------------------------------------------
LowerHex == <<"0", "1", "2", "3", "4", "5", "6", "7",
              "8", "9", "a", "b", "c", "d", "e", "f">>
UpperHex == <<"A", "B", "C", "D", "E", "F">>

\* hex.Encode writing the digits a-f in upper case
hexEncodeUpper(bs) ==
    [i \in 1..(2 * Len(bs)) |->
        LET v == IF i % 2 = 1 THEN bs[(i + 1) \div 2] \div 16
                 ELSE bs[i \div 2] % 16
        IN IF v >= 10 THEN UpperHex[v - 9] ELSE LowerHex[v + 1]]

\* hex.Encode: two lowercase digits per byte
hexEncode(bs) ==
    [i \in 1..(2 * Len(bs)) |->
        IF i % 2 = 1 THEN LowerHex[(bs[(i + 1) \div 2] \div 16) + 1]
        ELSE LowerHex[(bs[i \div 2] % 16) + 1]]

\* the value of each hex digit, of either case
HexValues ==
    [c \in {LowerHex[v] : v \in 1..16} \cup {UpperHex[v] : v \in 1..6} |->
        IF \E v \in 1..16 : LowerHex[v] = c
        THEN (CHOOSE v \in 1..16 : LowerHex[v] = c) - 1
        ELSE (CHOOSE v \in 1..6 : UpperHex[v] = c) + 9]

\* the value of a hex digit, 255 for any other character
fromHexChar(c) == IF c \in DOMAIN HexValues THEN HexValues[c] ELSE 255

\* hex.Decode(dst, src) with len(dst) = cap.  The loop takes the pairs of src
\* left to right: a pair with an invalid digit ends it with an error, a valid
\* pair beyond dst is an index-out-of-range panic; after the loop a trailing
\* single digit is an error.  [status, bytes written]
hexDecode(cap, src) ==
    LET pairs == Len(src) \div 2
        Bad(k) == fromHexChar(src[2 * k - 1]) > 15 \/ fromHexChar(src[2 * k]) > 15
        Stops == {k \in 1..pairs : Bad(k) \/ k > cap}
        stop == IF Stops = {} THEN pairs + 1
                ELSE CHOOSE k \in Stops : \A m \in Stops : k <= m
        written == [k \in 1..(stop - 1) |->
                      fromHexChar(src[2 * k - 1]) * 16 + fromHexChar(src[2 * k])]
    IN IF stop <= pairs
       THEN [status |-> IF Bad(stop) THEN "err" ELSE "panic", bytes |-> written]
       ELSE IF Len(src) % 2 = 1 THEN [status |-> "err", bytes |-> written]
       ELSE [status |-> "ok", bytes |-> written]

\* strings.Index(data, ":"), 0-based, -1 when absent
IndexColon(data) ==
    IF \E i \in 1..Len(data) : data[i] = ":"
    THEN (CHOOSE i \in 1..Len(data) :
            data[i] = ":" /\ \A k \in 1..(i - 1) : data[k] # ":") - 1
    ELSE -1

\* strings.LastIndex(data, ":"), 0-based, -1 when absent
LastIndexColon(data) ==
    IF \E i \in 1..Len(data) : data[i] = ":"
    THEN (CHOOSE i \in 1..Len(data) :
            data[i] = ":" /\ \A k \in (i + 1)..Len(data) : data[k] # ":") - 1
    ELSE -1

\* ------------------------------------------------------------------------
\* spanContext accessors (sc is a record [id, childSequenceID, mutex])
\* ------------------------------------------------------------------------
TraceID(sc) == SubSeq(sc.id, 1, traceIDSize)
SpanID(sc) == SubSeq(sc.id, traceIDSize + 1, traceIDSize + spanIDSize)
ParentID(sc) == SubSeq(sc.id, traceIDSize + spanIDSize + 1, totalIDSize)
Bytes(sc) == sc.id
level(sc) == sc.id[traceIDSize + 1]
\* bytes 1-2 of the SpanID, big endian
SequenceOf(sc) == sc.id[traceIDSize + 2] * 256 + sc.id[traceIDSize + 3]

\* spanContext.String
String(sc) ==
    hexEncode(TraceID(sc)) \o <<":">> \o hexEncode(SpanID(sc)) \o <<":">>
        \o hexEncode(ParentID(sc))

\* a fresh spanContext{id: id}
NewInstance(id) == [id |-> id, childSequenceID |-> 0, mutex |-> 0]

\* ------------------------------------------------------------------------
\* flag.go: the flag decoder (sc is an instance or Nil)
\* ------------------------------------------------------------------------
getSpecialFlag(sc) == TraceID(sc)[traceIDSize]

\* GetTypeMarker answering the marker of a normal request for a nil context
GetTypeMarkerNilAsNormal(sc) ==
    IF sc = Nil THEN 1
    ELSE And8(getSpecialFlag(sc), typeMarkerMask) \div (2 ^ flagBitsNonTypeMarker)

GetTypeMarker(sc) ==
    IF sc = Nil THEN 0
    ELSE And8(getSpecialFlag(sc), typeMarkerMask) \div (2 ^ flagBitsNonTypeMarker)

GetRequestType(sc) ==
    LET typeMarker == GetTypeMarker(sc)
    IN CASE typeMarker = 0 -> "old_format"
         [] typeMarker = 1 -> "normal"
         [] typeMarker = 2 -> "debug"
         [] typeMarker = 3 -> "stress_test"
         [] typeMarker = 4 -> "shadow"
         [] OTHER -> "unknown"

isOldFormat(sc) == And8(getSpecialFlag(sc), typeMarkerMask) = typeMarkerForOldFormat

\* IsSpanContextDebug with the legacy bit honoured whatever the marker is
IsSpanContextDebugLegacyAlways(sc) ==
    IF sc = Nil THEN FALSE
    ELSE And8(getSpecialFlag(sc), traceFlagOldDebug) = traceFlagOldDebug
            \/ And8(getSpecialFlag(sc), typeMarkerMask) = typeMarkerForDebug

IsSpanContextDebug(sc) ==
    IF sc = Nil THEN FALSE
    ELSE IF isOldFormat(sc)
    THEN And8(getSpecialFlag(sc), traceFlagOldDebug) = traceFlagOldDebug
    ELSE And8(getSpecialFlag(sc), typeMarkerMask) = typeMarkerForDebug

IsSpanContextFromStressTest(sc) ==
    IF sc = Nil THEN FALSE
    ELSE And8(getSpecialFlag(sc), typeMarkerMask) = typeMarkerForStressTest

IsSpanContextShadow(sc) ==
    IF sc = Nil THEN FALSE
    ELSE And8(getSpecialFlag(sc), typeMarkerMask) = typeMarkerForShadow

\* IsSpanContextSampled reading the sampled bit alone
IsSpanContextSampledBitOnly(sc) ==
    IF sc = Nil THEN FALSE
    ELSE And8(getSpecialFlag(sc), traceFlagSampled) = traceFlagSampled

IsSpanContextSampled(sc) ==
    IF sc = Nil THEN FALSE
    ELSE And8(getSpecialFlag(sc), traceFlagSampled) = traceFlagSampled
            \/ IsSpanContextDebug(sc)

IsSpanContextCritical(sc) ==
    IF sc = Nil THEN FALSE
    ELSE And8(getSpecialFlag(sc), traceFlagCritical) = traceFlagCritical

\* ------------------------------------------------------------------------
\* span.go: random tail and SpanID construction
\* ------------------------------------------------------------------------
\* the scan loop of getRandomBytes: for i := 0; i < bsLen-1 && bs[i] != 0; i++
RECURSIVE zeroScan(_, _, _)
zeroScan(bs, i, isAllZero) ==
    IF i < Len(bs) - 1 /\ bs[i + 1] # 0 THEN zeroScan(bs, i + 1, FALSE)
    ELSE isAllZero

\* getRandomBytes leaving the bytes as rand.Read put them
getRandomBytesAsDrawn(drawn) == drawn

\* getRandomBytes(bs), drawn being what rand.Read put into bs
getRandomBytes(drawn) ==
    IF Len(drawn) = 0 THEN drawn
    ELSE LET bsLen == Len(drawn)
         IN IF drawn[bsLen] = 0 /\ zeroScan(drawn, 0, TRUE)
            THEN [drawn EXCEPT ![bsLen] = 1]
            ELSE drawn

\* newSpanID(spanID, level, sequenceID), drawn being the random draw
newSpanID(spanID, lvl, sequenceID, drawn) ==
    LET s1 == [spanID EXCEPT ![1] = lvl]
        s2 == IF sequenceID > 0
              THEN [s1 EXCEPT ![2] = ToByte(sequenceID \div 256),
                              ![3] = ToByte(sequenceID)]
              ELSE s1
    IN CopyAt(s2, 3, getRandomBytes(drawn))

\* ------------------------------------------------------------------------
\* tracer.go: the probabilistic sampler; rates and draws in thousandths
\* ------------------------------------------------------------------------
RateUnit == 1000

Min2(a, b) == IF a < b THEN a ELSE b
Max2(a, b) == IF a > b THEN a ELSE b

NewProbabilisticSampler(samplingRate) ==
    [samplingRate |-> Max2(0, Min2(samplingRate, RateUnit))]

\* IsSampled comparing with <= instead of <
SamplerIsSampledInclusive(s, draw) == draw <= s.samplingRate

\* rand.Float64() < s.samplingRate, draw being the value of rand.Float64()
SamplerIsSampled(s, draw) == draw < s.samplingRate

\* ------------------------------------------------------------------------
\* span_generator.go: root generation
\* ------------------------------------------------------------------------
\* setTypeMarker testing IsFromStressTest before IsDebug
setTypeMarkerStressFirst(sco, traceFlag) ==
    IF sco.IsFromStressTest
    THEN Or8(And8(traceFlag, Not8(typeMarkerMask)), typeMarkerForStressTest)
    ELSE IF sco.IsDebug THEN Or8(traceFlag, traceFlagOldDebug)
    ELSE IF sco.IsShadow
    THEN Or8(And8(traceFlag, Not8(typeMarkerMask)), typeMarkerForShadow)
    ELSE traceFlag

\* setTypeMarker applying each option on its own, without the else
setTypeMarkerEachOption(sco, traceFlag) ==
    LET a == IF sco.IsDebug THEN Or8(traceFlag, traceFlagOldDebug) ELSE traceFlag
        b == IF sco.IsFromStressTest
             THEN Or8(And8(a, Not8(typeMarkerMask)), typeMarkerForStressTest)
             ELSE a
    IN IF sco.IsShadow
       THEN Or8(And8(b, Not8(typeMarkerMask)), typeMarkerForShadow)
       ELSE b

setTypeMarker(sco, traceFlag) ==
    IF sco.IsDebug THEN Or8(traceFlag, traceFlagOldDebug)
    ELSE IF sco.IsFromStressTest
    THEN Or8(And8(traceFlag, Not8(typeMarkerMask)), typeMarkerForStressTest)
    ELSE IF sco.IsShadow
    THEN Or8(And8(traceFlag, Not8(typeMarkerMask)), typeMarkerForShadow)
    ELSE traceFlag

\* step 1 of setSingleFlags asking the sampler whatever the options say
resolveSampledAskFirst(sco, scg, draw) ==
    [sampled |-> SamplerIsSampled(scg.sampler, draw), asked |-> 1]

\* step 1 of setSingleFlags: whether the sampled bit is set, and how many
\* times scg.sampler.IsSampled was called to decide it;
\* sco.IsSampled is "nil", "true" or "false" (a *bool)
resolveSampled(sco, scg, draw) ==
    IF sco.IsSampled # "nil"
    THEN [sampled |-> sco.IsSampled = "true", asked |-> 0]
    ELSE [sampled |-> SamplerIsSampled(scg.sampler, draw), asked |-> 1]

setSingleFlags(sco, traceFlag, scg, draw) ==
    LET f1 == IF resolveSampled(sco, scg, draw).sampled
              THEN Or8(traceFlag, traceFlagSampled) ELSE traceFlag
    IN IF sco.IsCritical THEN Or8(f1, traceFlagCritical) ELSE f1

\* newSpanContextID leaving out the copy of the instance hash
newSpanContextIDNoHash(scg, scID, flag, timestamp, drawnTrace, drawnSpan) ==
    LET t0 == scID
        t1 == [t0 EXCEPT ![5] = ToByte(timestamp.hi \div (2 ^ 16)),
                         ![6] = ToByte(timestamp.hi \div (2 ^ 8)),
                         ![7] = ToByte(timestamp.hi),
                         ![8] = ToByte(timestamp.lo \div (2 ^ 16)),
                         ![9] = ToByte(timestamp.lo \div (2 ^ 8)),
                         ![10] = ToByte(timestamp.lo)]
        t2 == CopyAt(SubSeq(t1, 1, traceIDSize - 1), 10, getRandomBytes(drawnTrace))
                \o SubSeq(t1, traceIDSize, totalIDSize)
        t3 == [t2 EXCEPT ![traceIDSize] = flag]
    IN SubSeq(t3, 1, traceIDSize)
        \o newSpanID(SubSeq(t3, traceIDSize + 1, totalIDSize), 0, 0, drawnSpan)

\* newSpanContextID(scID, flag): timestamp is time.Now().UnixNano()/1000, held
\* as hi * 2^24 + lo with lo < 2^24, so that timestamp >> 24 = hi
newSpanContextID(scg, scID, flag, timestamp, drawnTrace, drawnSpan) ==
    LET t0 == CopyAt(scID, 0, scg.instanceIDHash)
        t1 == [t0 EXCEPT ![5] = ToByte(timestamp.hi \div (2 ^ 16)),
                         ![6] = ToByte(timestamp.hi \div (2 ^ 8)),
                         ![7] = ToByte(timestamp.hi),
                         ![8] = ToByte(timestamp.lo \div (2 ^ 16)),
                         ![9] = ToByte(timestamp.lo \div (2 ^ 8)),
                         ![10] = ToByte(timestamp.lo)]
        t2 == CopyAt(SubSeq(t1, 1, traceIDSize - 1), 10, getRandomBytes(drawnTrace))
                \o SubSeq(t1, traceIDSize, totalIDSize)
        t3 == [t2 EXCEPT ![traceIDSize] = flag]
    IN SubSeq(t3, 1, traceIDSize)
        \o newSpanID(SubSeq(t3, traceIDSize + 1, totalIDSize), 0, 0, drawnSpan)

\* cachedSpanContextGenerator.NewSpanContext
NewSpanContext(scg, sco, draw, timestamp, drawnTrace, drawnSpan) ==
    LET traceFlag == setSingleFlags(sco, setTypeMarker(sco, 0), scg, draw)
    IN NewInstance(newSpanContextID(scg, Rep(0, totalIDSize), traceFlag,
                                    timestamp, drawnTrace, drawnSpan))

\* ------------------------------------------------------------------------
\* span.go: derivation and parsing
\* ------------------------------------------------------------------------
\* NewChildSpanContext copying the parent's ParentID instead of its SpanID
ChildOfGrandParent(sc, currentSequenceID, drawn) ==
    LET c0 == CopyAt(Rep(0, totalIDSize), 0, TraceID(sc))
        sp == newSpanID(SubSeq(c0, traceIDSize + 1, traceIDSize + spanIDSize),
                        AddU8(level(sc), 1), currentSequenceID, drawn)
        c1 == CopyAt(c0, traceIDSize, sp)
    IN NewInstance(CopyAt(c1, traceIDSize + spanIDSize, ParentID(sc)))

\* NewChildSpanContext passing the parent's level on unchanged
ChildOfSameLevel(sc, currentSequenceID, drawn) ==
    LET c0 == CopyAt(Rep(0, totalIDSize), 0, TraceID(sc))
        sp == newSpanID(SubSeq(c0, traceIDSize + 1, traceIDSize + spanIDSize),
                        level(sc), currentSequenceID, drawn)
        c1 == CopyAt(c0, traceIDSize, sp)
    IN NewInstance(CopyAt(c1, traceIDSize + spanIDSize, SpanID(sc)))

\* NewChildSpanContext handing its own counter on to the child
ChildOfSharedCounter(sc, currentSequenceID, drawn) ==
    LET c0 == CopyAt(Rep(0, totalIDSize), 0, TraceID(sc))
        sp == newSpanID(SubSeq(c0, traceIDSize + 1, traceIDSize + spanIDSize),
                        AddU8(level(sc), 1), currentSequenceID, drawn)
        c1 == CopyAt(c0, traceIDSize, sp)
    IN [NewInstance(CopyAt(c1, traceIDSize + spanIDSize, SpanID(sc)))
           EXCEPT !.childSequenceID = sc.childSequenceID]

\* the child built by NewChildSpanContext once currentSequenceID is known
ChildOf(sc, currentSequenceID, drawn) ==
    LET c0 == CopyAt(Rep(0, totalIDSize), 0, TraceID(sc))
        sp == newSpanID(SubSeq(c0, traceIDSize + 1, traceIDSize + spanIDSize),
                        AddU8(level(sc), 1), currentSequenceID, drawn)
        c1 == CopyAt(c0, traceIDSize, sp)
    IN NewInstance(CopyAt(c1, traceIDSize + spanIDSize, SpanID(sc)))

\* NewSpanContextFromBytes copying the TraceID and SpanID only
NewSpanContextFromBytesNoParent(data) ==
    IF Len(data) # totalIDSize THEN [status |-> "err", sc |-> Nil]
    ELSE [status |-> "ok",
          sc |-> NewInstance(CopyAt(Rep(0, totalIDSize), 0,
                                    SubSeq(data, 1, traceIDSize + spanIDSize)))]

\* NewSpanContextFromBytes rejecting short input only
NewSpanContextFromBytesAtLeast(data) ==
    IF Len(data) < totalIDSize THEN [status |-> "err", sc |-> Nil]
    ELSE [status |-> "ok", sc |-> NewInstance(CopyAt(Rep(0, totalIDSize), 0, data))]

\* NewSpanContextFromBytes: [status, sc]
NewSpanContextFromBytes(data) ==
    IF Len(data) # totalIDSize THEN [status |-> "err", sc |-> Nil]
    ELSE [status |-> "ok", sc |-> NewInstance(CopyAt(Rep(0, totalIDSize), 0, data))]

\* NewSpanContextFromString: [status, sc]; "panic" is the run-time panic of
\* hex.Decode writing past its destination slice
NewSpanContextFromString(data) ==
    IF Len(data) = 0 THEN [status |-> "err", sc |-> Nil]
    ELSE
    LET firstColonIdx == IndexColon(data)
        lastColonIdx == LastIndexColon(data)
    IN IF firstColonIdx >= lastColonIdx THEN [status |-> "err", sc |-> Nil]
       ELSE
       LET d1 == hexDecode(totalIDSize, SubSeq(data, 1, firstColonIdx))
           d2 == hexDecode(totalIDSize - traceIDSize,
                           SubSeq(data, firstColonIdx + 2, lastColonIdx))
           d3 == hexDecode(totalIDSize - traceIDSize - spanIDSize,
                           SubSeq(data, lastColonIdx + 2, Len(data)))
           h1 == CopyAt(Rep(0, totalIDSize), 0, d1.bytes)
           h2 == CopyAt(h1, traceIDSize, d2.bytes)
           h3 == CopyAt(h2, traceIDSize + spanIDSize, d3.bytes)
       IN IF d1.status # "ok" THEN [status |-> d1.status, sc |-> Nil]
          ELSE IF d2.status # "ok" THEN [status |-> d2.status, sc |-> Nil]
          ELSE IF d3.status # "ok" THEN [status |-> d3.status, sc |-> Nil]
          ELSE [status |-> "ok", sc |-> NewInstance(h3)]

\* SpanContextFromBytesToString
SpanContextFromBytesToString(bytes) ==
    LET r == NewSpanContextFromBytes(bytes)
    IN IF r.status # "ok" THEN <<>> ELSE String(r.sc)

\* NewSpanContextGenerator: siHash is the fingerprint the constructor computed
\* (md5 tail or 4 random bytes), samplerOpt the WithSampler option or Nil
defaultSamplingProbability == 1

NewSpanContextGenerator(siHash, samplerOpt) ==
    [instanceIDHash |-> siHash,
     sampler |-> IF samplerOpt = Nil
                 THEN NewProbabilisticSampler(defaultSamplingProbability)
                 ELSE samplerOpt]

\* ------------------------------------------------------------------------
\* Inputs
\* ------------------------------------------------------------------------
\* what rand.Read may put into a 5-byte tail
RandDraws == {Rep(0, 5), <<0, 7, 0, 0, 0>>, <<171, 205, 239, 18, 52>>}
\* the two tails drawn for one root: TraceID bytes 10-14, SpanID bytes 3-7
RootDraws ==
    {<<Rep(0, 5), Rep(0, 5)>>, <<<<171, 205, 239, 18, 52>>, <<0, 7, 0, 0, 0>>>>}
\* values of rand.Float64(), in thousandths
SamplerDraws == {0, RateUnit - 1}
\* time.Now().UnixNano()/1000 as hi * 2^24 + lo (it exceeds 48 bits today)
TimeStamps == {[hi |-> 106905443, lo |-> 1193046]}
\* the constructor's inputs: an instance id hashed to a fingerprint with the
\* default sampler, and another with an out-of-range sampling rate
InstanceHash == <<222, 173, 190, 239>>
GeneratorArgs ==
    {<<InstanceHash, Nil>>,
     <<<<0, 0, 0, 1>>, NewProbabilisticSampler(RateUnit + 5)>>}
Generators == {NewSpanContextGenerator(a[1], a[2]) : a \in GeneratorArgs}

\* SpanContextOptions after the option functions have run
AllSCO ==
    [IsDebug : BOOLEAN, IsFromStressTest : BOOLEAN, IsShadow : BOOLEAN,
     IsSampled : {"nil", "true", "false"}, IsCritical : BOOLEAN]
DefaultSCO ==
    [IsDebug |-> FALSE, IsFromStressTest |-> FALSE, IsShadow |-> FALSE,
     IsSampled |-> "nil", IsCritical |-> FALSE]
SomeSCO ==
    {DefaultSCO,
     [DefaultSCO EXCEPT !.IsDebug = TRUE, !.IsFromStressTest = TRUE],
     [DefaultSCO EXCEPT !.IsShadow = TRUE, !.IsSampled = "true",
                        !.IsCritical = TRUE]}

\* a well-formed identifier received from another process
BaseID ==
    <<1, 35, 69, 103, 137, 171, 205, 239, 16, 50, 84, 118, 152, 186, 220, 0>>
        \o <<2, 0, 5, 9, 8, 7, 6, 5>> \o <<1, 0, 3, 250, 206, 0, 0, 1>>
\* the same with every value of the flag byte
FlagIDs == {[BaseID EXCEPT ![traceIDSize] = b] : b \in 0..255}
\* the same at the deepest level a byte can hold
DeepID == [BaseID EXCEPT ![traceIDSize + 1] = 255]

\* byte slices of every kind of length
RawBytes ==
    {<<>>, SubSeq(BaseID, 1, totalIDSize - 1), BaseID, BaseID \o <<0>>,
     SubSeq(BaseID, 1, traceIDSize), BaseID \o BaseID}

Seg(n) == [i \in 1..n |-> LowerHex[(i % 16) + 1]]
Colon == <<":">>
Join3(a, b, c) == a \o Colon \o b \o Colon \o c
RawStrings ==
    {<<>>,
     Colon \o Colon,
     Seg(66),
     Seg(32) \o Colon \o Seg(16),
     Join3(Seg(32), Seg(16), Seg(16)),
     Join3(Rep("A", 32), Rep("F", 16), Rep("0", 16)),
     Join3(Seg(30), Seg(16), Seg(16)),
     Join3(Seg(31), Seg(16), Seg(16)),
     Join3(Seg(34), Seg(16), Seg(16)),
     Join3(Seg(32), Seg(34), Seg(16)),
     Join3(Seg(32), Seg(16), Seg(18)),
     Join3(Seg(32), Seg(16), Seg(14)),
     Join3(Seg(32), Seg(16), <<>>),
     Join3(Seg(31) \o <<"g">>, Seg(16), Seg(16)),
     Join3(Seg(32), Seg(15) \o <<"-">>, Seg(16)),
     Join3(Seg(32), Seg(7) \o Colon \o Seg(8), Seg(16))}

\* logger.go: zapcore levels
DebugLvl == 0 - 1
InfoLvl == 0
WarnLvl == 1
ErrorLvl == 2
DPanicLvl == 3
PanicLvl == 4
FatalLvl == 5
PrintToStd_NONE == 0
PrintToStd_USERLOG == 1
PrintToStd_SYSLOG == 2
PrintToStd_TRACING == 4
PrintToStd_ALL == 7
\* 48 * time.Hour, in hours
maxResetLvlDur == 48
maxResetVer == 10000

\* ------------------------------------------------------------------------
\* State
\* ------------------------------------------------------------------------
VARIABLES
    scg,      \* the generator: [instanceIDHash, sampler]
    scs,      \* the spanContext instances alive, in order of creation
    origin,   \* history: how instance i was made, [kind, of]
    pc,       \* where each goroutine is inside NewChildSpanContext
    tgt,      \* the instance it was called on (0: none)
    cur,      \* its local currentSequenceID
    out,      \* the last call made and what it returned
    sampler,  \* the ProbabilisticSampler under test, Nil before it is built
    globalTracer, \* global.go: the content of the atomic.Value
    gtc,      \* each goroutine's call on the registry: [pc, ...locals]
    stores,   \* history: the tracers stored by SetGlobalTracer, in order
    called,   \* history: the arguments of the SetGlobalTracer calls begun
    spans,    \* noop.go: the NoopSpans made, [ctx, tracer]; ctx is the index
              \* in scs of the SpanContext it refers to, 0 for nil
    env,      \* the value env.GetEnv() returns
    logLevel, \* logger.go: atomic.Int32
    initialLogLevel,
    resetVer, \* atomic.Int64
    timers,   \* the time.AfterFunc timers not fired yet: [id, ver, duration]
    cbs,      \* the timer callbacks running resetLevel: [id, ver, pc]
    usr,      \* the user goroutine's call of SetLevel: [pc, ...locals]
    lastSet,  \* history: the last SetLevel call of the user, [n, level, timer]
    nameMap,  \* logger.go: the file name of each split level
    defaultOptions, \* the option record the package variable points to
    loggers,  \* logger, sysLogger, tracingLogger: Nil or the logger built
    onces,    \* loggerInitOnce, sysLoggerInitOnce, tracingLoggerInitOnce:
              \* [done, m], m being the goroutine holding the mutex (0: free)
    lgc,      \* each goroutine's call of GetLogger .. InitLogger: [pc, ...]
    built     \* history: the loggers built by newLogger, in order

\* the state of the identifier package
traceVars == <<scg, scs, origin, pc, tgt, cur>>
samplerVars == <<sampler>>
registryVars == <<globalTracer, gtc, stores, called>>
noopVars == <<spans>>
levelVars == <<env, logLevel, initialLogLevel, resetVer, timers, cbs, usr,
               lastSet>>
\* the state of package log
nameVars == <<nameMap>>
optionVars == <<defaultOptions>>
onceVars == <<loggers, onces, lgc, built>>
loggerVars == <<levelVars, nameVars, optionVars, onceVars>>

vars == <<traceVars, out, samplerVars, registryVars, noopVars, loggerVars>>

\* what the identifier package never touches
notTrace == <<samplerVars, registryVars, noopVars, loggerVars>>

Procs == 1..NumProcs

InFlight == Cardinality({p \in Procs : pc[p] # "idle"})

\* there is room for the instance a call will return
Room(max) == Len(scs) + InFlight < max

\* the three package loggers, each with a sync.Once of its own
LoggerKinds == {"logger", "sysLogger", "tracingLogger"}

\* the option record defaultOptions is initialised with
InitialOptions ==
    [LocalTime |-> FALSE, Stdout |-> FALSE,
     Filename |-> [dir |-> "", file |-> "customize", ext |-> ""],
     Compress |-> FALSE]

\* NewNoopTracer() called by init() of global.go
InitialNoop == [impl |-> "NoopTracer", id |-> 0]

\* the level of package log before its first use
InitLevel ==
    /\ env = "dev"
    /\ logLevel = InfoLvl
    /\ initialLogLevel = InfoLvl
    /\ resetVer = 0
    /\ timers = {}
    /\ cbs = {}
    /\ usr = [pc |-> "idle"]
    /\ lastSet = [n |-> 0, level |-> InfoLvl, timer |-> 0]

\* the state after construction, the instances made so far left open; lvl
\* is the state of the log level
InitButInstances(lvl) ==
    /\ lvl
    /\ scg \in Generators
    /\ pc = [p \in Procs |-> "idle"]
    /\ tgt = [p \in Procs |-> 0]
    /\ cur = [p \in Procs |-> 0]
    /\ out = [op |-> "none"]
    /\ sampler = Nil
    /\ globalTracer = [tracer |-> InitialNoop]
    /\ gtc = [p \in Procs |-> [pc |-> "idle"]]
    /\ stores = <<>>
    /\ called = {}
    /\ spans = <<>>
    /\ nameMap = (DebugLvl :> "debug") @@ (InfoLvl :> "info")
                    @@ (WarnLvl :> "warn") @@ (ErrorLvl :> "error")
    /\ defaultOptions = InitialOptions
    /\ loggers = [k \in LoggerKinds |-> Nil]
    /\ onces = [k \in LoggerKinds |-> [done |-> FALSE, m |-> 0]]
    /\ lgc = [p \in Procs |-> [pc |-> "idle"]]
    /\ built = <<>>

Init ==
    /\ scs = <<>>
    /\ origin = <<>>
    /\ InitButInstances(InitLevel)

\* ------------------------------------------------------------------------
\* Operations
\* ------------------------------------------------------------------------
\* scg.NewSpanContext(options...)
GenRoot(sco, draw, timestamp, drawnTrace, drawnSpan) ==
    /\ scs' = Append(scs, NewSpanContext(scg, sco, draw, timestamp,
                                         drawnTrace, drawnSpan))
    /\ origin' = Append(origin, [kind |-> "root", of |-> 0])
    /\ out' = [op |-> "NewSpanContext", sco |-> sco, draw |-> draw,
               asked |-> resolveSampled(sco, scg, draw).asked,
               idx |-> Len(scs) + 1]
    /\ UNCHANGED <<scg, pc, tgt, cur>>
    /\ UNCHANGED notTrace

\* NewChildSpanContext, step 1: sc.mutex.Lock()
LockNoMutex(p, i) ==
    /\ pc[p] = "idle"
    /\ scs' = [scs EXCEPT ![i].mutex = p]
    /\ pc' = [pc EXCEPT ![p] = "locked"]
    /\ tgt' = [tgt EXCEPT ![p] = i]
    /\ UNCHANGED <<scg, origin, cur, out>>
    /\ UNCHANGED notTrace

Lock(p, i) ==
    /\ pc[p] = "idle"
    /\ scs[i].mutex = 0
    /\ scs' = [scs EXCEPT ![i].mutex = p]
    /\ pc' = [pc EXCEPT ![p] = "locked"]
    /\ tgt' = [tgt EXCEPT ![p] = i]
    /\ UNCHANGED <<scg, origin, cur, out>>
    /\ UNCHANGED notTrace

\* step 2: currentSequenceID := sc.childSequenceID
ReadSeq(p) ==
    /\ pc[p] = "locked"
    /\ cur' = [cur EXCEPT ![p] = scs[tgt[p]].childSequenceID]
    /\ pc' = [pc EXCEPT ![p] = "read"]
    /\ UNCHANGED <<scg, scs, origin, tgt, out>>
    /\ UNCHANGED notTrace

\* step 3 without the increment
IncSeqForgotten(p) ==
    /\ pc[p] = "read"
    /\ pc' = [pc EXCEPT ![p] = "inc"]
    /\ UNCHANGED <<scg, scs, origin, tgt, cur, out>>
    /\ UNCHANGED notTrace

\* step 3: sc.childSequenceID++
IncSeq(p) ==
    /\ pc[p] = "read"
    /\ scs' = [scs EXCEPT ![tgt[p]].childSequenceID = AddU16(@, 1)]
    /\ pc' = [pc EXCEPT ![p] = "inc"]
    /\ UNCHANGED <<scg, origin, tgt, cur, out>>
    /\ UNCHANGED notTrace

\* step 4: sc.mutex.Unlock()
Unlock(p) ==
    /\ pc[p] = "inc"
    /\ scs' = [scs EXCEPT ![tgt[p]].mutex = 0]
    /\ pc' = [pc EXCEPT ![p] = "unlocked"]
    /\ UNCHANGED <<scg, origin, tgt, cur, out>>
    /\ UNCHANGED notTrace

\* step 5: build the child and return it
BuildChild(p, drawn) ==
    /\ pc[p] = "unlocked"
    /\ scs' = Append(scs, ChildOf(scs[tgt[p]], cur[p], drawn))
    /\ origin' = Append(origin, [kind |-> "child", of |-> tgt[p]])
    /\ out' = [op |-> "NewChildSpanContext", of |-> tgt[p], seq |-> cur[p],
               idx |-> Len(scs) + 1]
    /\ pc' = [pc EXCEPT ![p] = "idle"]
    /\ tgt' = [tgt EXCEPT ![p] = 0]
    /\ cur' = [cur EXCEPT ![p] = 0]
    /\ UNCHANGED scg
    /\ UNCHANGED notTrace

\* NewSpanContextFromBytes(data); of is the instance whose Bytes() data is, or 0
FromBytes(data, of) ==
    LET r == NewSpanContextFromBytes(data)
    IN /\ scs' = IF r.status = "ok" THEN Append(scs, r.sc) ELSE scs
       /\ origin' = IF r.status = "ok"
                    THEN Append(origin, [kind |-> "bytes", of |-> of])
                    ELSE origin
       /\ out' = [op |-> "FromBytes", arg |-> data, of |-> of,
                  status |-> r.status,
                  idx |-> IF r.status = "ok" THEN Len(scs) + 1 ELSE 0]
       /\ UNCHANGED <<scg, pc, tgt, cur>>
       /\ UNCHANGED notTrace

\* NewSpanContextFromString(data); of is the instance whose String() data is, or 0
FromString(data, of) ==
    LET r == NewSpanContextFromString(data)
    IN /\ scs' = IF r.status = "ok" THEN Append(scs, r.sc) ELSE scs
       /\ origin' = IF r.status = "ok"
                    THEN Append(origin, [kind |-> "string", of |-> of])
                    ELSE origin
       /\ out' = [op |-> "FromString", arg |-> data, of |-> of,
                  status |-> r.status,
                  idx |-> IF r.status = "ok" THEN Len(scs) + 1 ELSE 0]
       /\ UNCHANGED <<scg, pc, tgt, cur>>
       /\ UNCHANGED notTrace

\* SpanContextFromBytesToString(data)
BytesToString(data) ==
    /\ out' = [op |-> "BytesToString", arg |-> data,
               str |-> SpanContextFromBytesToString(data)]
    /\ UNCHANGED <<scg, scs, origin, pc, tgt, cur>>
    /\ UNCHANGED notTrace

\* the flag decoder applied to instance i, or to a nil SpanContext when i = 0
Decode(i) ==
    LET sc == IF i = 0 THEN Nil ELSE scs[i]
    IN /\ out' = [op |-> "Decode", idx |-> i,
                  marker |-> GetTypeMarker(sc),
                  reqType |-> GetRequestType(sc),
                  debug |-> IsSpanContextDebug(sc),
                  stress |-> IsSpanContextFromStressTest(sc),
                  shadow |-> IsSpanContextShadow(sc),
                  sampled |-> IsSpanContextSampled(sc),
                  critical |-> IsSpanContextCritical(sc)]
       /\ UNCHANGED <<scg, scs, origin, pc, tgt, cur>>
       /\ UNCHANGED notTrace

\* ------------------------------------------------------------------------
\* Specifications
\* ------------------------------------------------------------------------
\* Generation, concurrent derivation and round trips over several instances.
NewRoot ==
    /\ Room(MaxCtx)
    /\ \E sco \in SomeSCO, draw \in SamplerDraws, ts \in TimeStamps,
          d \in RootDraws : GenRoot(sco, draw, ts, d[1], d[2])

Derive ==
    \/ \E p \in Procs, i \in 1..Len(scs) : Room(MaxCtx) /\ Lock(p, i)
    \/ \E p \in Procs : ReadSeq(p)
    \/ \E p \in Procs : IncSeq(p)
    \/ \E p \in Procs : Unlock(p)
    \/ \E p \in Procs, d \in RandDraws : BuildChild(p, d)

Reparse ==
    \/ \E i \in 1..Len(scs) : Room(MaxCtx) /\ FromBytes(Bytes(scs[i]), i)
    \/ \E i \in 1..Len(scs) : Room(MaxCtx) /\ FromString(String(scs[i]), i)
    \/ Room(MaxCtx) /\ FromBytes(DeepID, 0)

Next == NewRoot \/ Derive \/ Reparse

Spec == Init /\ [][Next]_vars

\* The flag decoder over every flag byte and every option combination.
FlagRoot ==
    /\ Room(MaxUnitCtx)
    /\ \E sco \in AllSCO, draw \in SamplerDraws, ts \in TimeStamps :
          GenRoot(sco, draw, ts, Rep(0, 5), Rep(0, 5))

FlagParse == Room(MaxUnitCtx) /\ \E id \in FlagIDs : FromBytes(id, 0)

FlagDecode == \E i \in 0..Len(scs) : Decode(i)

NextFlag == FlagRoot \/ FlagParse \/ FlagDecode

SpecFlag == Init /\ [][NextFlag]_vars

\* The codecs over well-formed and malformed input.
CodecRoot ==
    /\ Room(MaxUnitCtx)
    /\ \E ts \in TimeStamps, dT \in RandDraws, dS \in RandDraws :
          GenRoot(DefaultSCO, 0, ts, dT, dS)

CodecBytes ==
    \/ \E i \in 1..Len(scs) : BytesToString(Bytes(scs[i]))
    \/ \E data \in RawBytes : BytesToString(data)
    \/ \E data \in RawBytes : FromBytes(data, 0) /\ Len(scs') <= MaxUnitCtx

CodecString ==
    \E data \in RawStrings : FromString(data, 0) /\ Len(scs') <= MaxUnitCtx

NextCodec == CodecRoot \/ CodecBytes \/ CodecString

SpecCodec == Init /\ [][NextCodec]_vars

\* ------------------------------------------------------------------------
\* Properties
\* ------------------------------------------------------------------------
Instances == 1..Len(scs)
\* the instances derived from instance i by NewChildSpanContext
Children(i) == {j \in Instances : origin[j].kind = "child" /\ origin[j].of = i}
\* the calls on instance i that have incremented and not yet returned
PastIncrement(i) == {p \in Procs : tgt[p] = i /\ pc[p] \in {"inc", "unlocked"}}
\* the flag byte of instance i, read off the identifier
FlagByte(i) == scs[i].id[16]
\* the level byte of instance i, read off the identifier
LevelByte(i) == scs[i].id[17]

\* number of derivation steps from instance j back to a context that was not derived
RECURSIVE Depth(_)
Depth(j) == IF origin[j].kind = "child" THEN Depth(origin[j].of) + 1 ELSE 0
\* the context the derivation chain of j starts at
RECURSIVE ChainStart(_)
ChainStart(j) == IF origin[j].kind = "child" THEN ChainStart(origin[j].of) ELSE j

\* str is hex(id[0:16]):hex(id[16:24]):hex(id[24:32]) in lower case
IsThreeSegmentOf(str, id) ==
    /\ Len(str) = 66
    /\ str[33] = ":"
    /\ str[50] = ":"
    /\ \A k \in 1..32 :
          LET pos == 2 * k - 1 + (IF k > 16 THEN 1 ELSE 0) + (IF k > 24 THEN 1 ELSE 0)
          IN /\ str[pos] = LowerHex[(id[k] \div 16) + 1]
             /\ str[pos + 1] = LowerHex[(id[k] % 16) + 1]

\* C1: concurrent NewChildSpanContext calls on one parent instance hand out
\* pairwise distinct sequence numbers (bytes 1-2 of the children's SpanIDs),
\* and the parent's counter, which started at 0, equals the number of calls
\* that have incremented it: no update is lost.
C1_DistinctSequences ==
    \A i \in Instances :
        /\ \A a, b \in Children(i) :
              a # b => SequenceOf(scs[a]) # SequenceOf(scs[b])
        /\ scs[i].childSequenceID
              = Cardinality(Children(i)) + Cardinality(PastIncrement(i))

\* two calls overlapped: the call that got sequence 1 has returned its child
\* while the call that got sequence 0 is still building its own
C1_Witness ==
    \E i \in Instances, p \in Procs :
        /\ tgt[p] = i /\ pc[p] = "unlocked" /\ cur[p] = 0
        /\ \E j \in Children(i) : SequenceOf(scs[j]) = 1
        /\ scs[i].childSequenceID = 2

\* C2: a child carries its parent's TraceID byte for byte, flag byte included,
\* and its ParentID is the parent's SpanID; so the TraceID is constant along a
\* derivation chain.
C2_ChildKeepsTraceAndParent ==
    \A j \in Instances :
        origin[j].kind = "child" =>
            /\ TraceID(scs[j]) = TraceID(scs[origin[j].of])
            /\ FlagByte(j) = FlagByte(origin[j].of)
            /\ ParentID(scs[j]) = SpanID(scs[origin[j].of])
            /\ TraceID(scs[j]) = TraceID(scs[ChainStart(j)])

\* a chain r, c1, c2 from a generated root
C2_Witness ==
    \E j \in Instances :
        /\ origin[j].kind = "child"
        /\ origin[origin[j].of].kind = "child"
        /\ origin[origin[origin[j].of].of].kind = "root"

\* C3 as stated: the child's level byte is the parent's level plus one, for
\* every parent, whatever its level byte.
C3_LevelPlusOne ==
    \A j \in Instances :
        origin[j].kind = "child" => LevelByte(j) = LevelByte(origin[j].of) + 1

\* C3 amended: the child's level byte is the parent's level plus one modulo
\* 256 (a parent at level 255 has children at level 0), and the n-th
\* descendant of a root has level n modulo 256.
C3_LevelPlusOneMod256 ==
    \A j \in Instances :
        /\ origin[j].kind = "child" =>
              LevelByte(j) = (LevelByte(origin[j].of) + 1) % 256
        /\ origin[ChainStart(j)].kind = "root" => LevelByte(j) = Depth(j) % 256

\* a child, at level 0, of a parsed context at level 255
C3_Witness ==
    \E j \in Instances :
        /\ origin[j].kind = "child"
        /\ LevelByte(origin[j].of) = 255
        /\ LevelByte(j) = 0

\* C4: parsing sc.Bytes() of a generated or derived context succeeds and
\* yields a context with the same 32 identifier bytes.
C4_BytesRoundTrip ==
    /\ \A j \in Instances :
          (origin[j].kind = "bytes" /\ origin[j].of > 0) =>
              scs[j].id = scs[origin[j].of].id
    /\ (out.op = "FromBytes" /\ out.of > 0) =>
          /\ out.status = "ok"
          /\ out.idx \in Instances
          /\ scs[out.idx].id = scs[out.of].id

\* the bytes of a derived child, ParentID set, parsed back
C4_Witness ==
    /\ out.op = "FromBytes"
    /\ out.of > 0
    /\ origin[out.of].kind = "child"
    /\ out.idx > 0

\* C5: sc.String() is hex(TraceID):hex(SpanID):hex(ParentID) in lower case,
\* 32, 16 and 16 characters, and parsing it succeeds and yields a context
\* with the same 32 identifier bytes.
C5_StringRoundTrip ==
    /\ \A j \in Instances :
          (origin[j].kind = "string" /\ origin[j].of > 0) =>
              scs[j].id = scs[origin[j].of].id
    /\ (out.op = "FromString" /\ out.of > 0) =>
          /\ IsThreeSegmentOf(out.arg, scs[out.of].id)
          /\ out.status = "ok"
          /\ out.idx \in Instances
          /\ scs[out.idx].id = scs[out.of].id

\* the string of a derived child whose bytes need the digits a-f, parsed back
C5_Witness ==
    /\ out.op = "FromString"
    /\ out.of > 0
    /\ origin[out.of].kind = "child"
    /\ \E k \in 1..Len(out.arg) : out.arg[k] = "f"
    /\ out.idx > 0

\* exactly two separators and segments of exactly 32, 16 and 16 hex digits
IsHexDigit(c) ==
    \/ \E v \in 1..16 : LowerHex[v] = c
    \/ \E v \in 1..6 : UpperHex[v] = c

WellFormedString(str) ==
    /\ Len(str) = 66
    /\ \A k \in 1..66 :
          IF k \in {33, 50} THEN str[k] = ":" ELSE IsHexDigit(str[k])

\* C6: NewSpanContextFromString accepts a string only when it has exactly two
\* separators and segments of exactly 32, 16 and 16 hex characters; every
\* other string yields an error and no context, and no input crashes it.
C6_StrictStringParsing ==
    out.op = "FromString" =>
        /\ out.status # "panic"
        /\ out.status = "ok" <=> WellFormedString(out.arg)
        /\ out.status # "ok" => out.idx = 0

\* C7: NewSpanContextFromBytes fails, with no context, exactly on inputs whose
\* length is not 32; SpanContextFromBytesToString returns the empty string
\* exactly then and the 3-segment string of the input otherwise.
C7_BytesLengthCheck ==
    /\ out.op = "FromBytes" =>
          /\ out.status \in {"ok", "err"}
          /\ out.status = "err" <=> Len(out.arg) # 32
          /\ out.status = "err" => out.idx = 0
          /\ out.status = "ok" => out.idx \in Instances /\ scs[out.idx].id = out.arg
    /\ out.op = "BytesToString" =>
          /\ out.str = <<>> <=> Len(out.arg) # 32
          /\ Len(out.arg) = 32 => IsThreeSegmentOf(out.str, out.arg)

\* an input one byte too long, refused
C7_Witness ==
    /\ out.op = "FromBytes"
    /\ Len(out.arg) = 33
    /\ out.status = "err"

\* C8 as stated: the type marker of a root is that of the first true option in
\* the order debug (2), stress-test (3), shadow (4), and 0 when none is.
C8_MarkerOfFirstOption ==
    out.op = "NewSpanContext" =>
        GetTypeMarker(scs[out.idx]) =
            IF out.sco.IsDebug THEN 2
            ELSE IF out.sco.IsFromStressTest THEN 3
            ELSE IF out.sco.IsShadow THEN 4
            ELSE 0

\* C8 amended: IsDebug wins over the other two options but is recorded in the
\* legacy bit 0 and leaves the marker bits 0; without IsDebug the marker is 3
\* for stress-test, else 4 for shadow, else 0.
C8_MarkerPrecedence ==
    out.op = "NewSpanContext" =>
        /\ FlagByte(out.idx) \div 32 =
              IF out.sco.IsDebug THEN 0
              ELSE IF out.sco.IsFromStressTest THEN 3
              ELSE IF out.sco.IsShadow THEN 4
              ELSE 0
        /\ GetTypeMarker(scs[out.idx]) = FlagByte(out.idx) \div 32
        /\ FlagByte(out.idx) % 2 = (IF out.sco.IsDebug THEN 1 ELSE 0)

\* a root built with IsDebug and IsFromStressTest both set
C8_Witness ==
    /\ out.op = "NewSpanContext"
    /\ out.sco.IsDebug
    /\ out.sco.IsFromStressTest
    /\ GetTypeMarker(scs[out.idx]) = 0
    /\ IsSpanContextDebug(scs[out.idx])

\* C9: for every flag byte, debug implies sampled, and sampled is true
\* exactly when the sampled bit (bit 1) is set or debug is true.
C9_DebugImpliesSampled ==
    (out.op = "Decode" /\ out.idx > 0) =>
        /\ out.debug => out.sampled
        /\ out.sampled <=> ((FlagByte(out.idx) \div 2) % 2 = 1 \/ out.debug)

\* a debug context whose sampled bit is clear
C9_Witness ==
    /\ out.op = "Decode"
    /\ out.idx > 0
    /\ out.debug
    /\ (FlagByte(out.idx) \div 2) % 2 = 0
    /\ out.sampled

\* C10: for every flag byte, debug is bit 0 when the marker bits (5-7) are 0,
\* and is (marker = 2) when they are not: the legacy bit has no say then.
C10_LegacyDebug ==
    (out.op = "Decode" /\ out.idx > 0) =>
        LET flag == FlagByte(out.idx)
        IN IF flag \div 32 = 0 THEN out.debug <=> (flag % 2 = 1)
           ELSE out.debug <=> (flag \div 32 = 2)

\* a marked context that is not debug although its legacy bit is set
C10_Witness ==
    /\ out.op = "Decode"
    /\ out.idx > 0
    /\ FlagByte(out.idx) \div 32 = 3
    /\ FlagByte(out.idx) % 2 = 1
    /\ ~out.debug

\* ------------------------------------------------------------------------
\* tracer.go: the probabilistic sampler on its own
\* ------------------------------------------------------------------------
\* rates in thousandths handed to the constructor, in and out of range
SamplingRates ==
    {0 - RateUnit, 0 - 1, 0, 1, RateUnit \div 2, RateUnit - 1, RateUnit,
     RateUnit + 1, 2 * RateUnit}
\* every value of rand.Float64(), in thousandths: [0, 1)
FloatDraws == 0..(RateUnit - 1)

notSampler == <<traceVars, registryVars, noopVars, loggerVars>>

\* sampler = NewProbabilisticSampler(samplingRate)
MakeSampler(samplingRate) ==
    /\ sampler' = NewProbabilisticSampler(samplingRate)
    /\ out' = [op |-> "NewProbabilisticSampler", rate |-> samplingRate]
    /\ UNCHANGED notSampler

\* sampler.IsSampled(ctx), draw being what rand.Float64() returned
AskSampler(draw) ==
    /\ sampler # Nil
    /\ out' = [op |-> "IsSampled", draw |-> draw,
               result |-> SamplerIsSampled(sampler, draw)]
    /\ UNCHANGED <<sampler, notSampler>>

SamplerBuild == \E r \in SamplingRates : MakeSampler(r)

SamplerAsk == \E d \in FloatDraws : AskSampler(d)

NextSampler == SamplerBuild \/ SamplerAsk

SpecSampler == Init /\ [][NextSampler]_vars

\* C11: the constructor clamps the rate into [0, 1] (below 0 gives 0, above 1
\* gives 1, a rate in range is kept); a sampler of rate 0 answers false and a
\* sampler of rate 1 answers true, whatever the random draw in [0, 1).
C11_SamplingBoundaries ==
    /\ sampler # Nil => sampler.samplingRate \in 0..RateUnit
    /\ out.op = "NewProbabilisticSampler" =>
          /\ out.rate < 0 => sampler.samplingRate = 0
          /\ out.rate > RateUnit => sampler.samplingRate = RateUnit
          /\ out.rate \in 0..RateUnit => sampler.samplingRate = out.rate
    /\ out.op = "IsSampled" =>
          /\ sampler.samplingRate = 0 => out.result = FALSE
          /\ sampler.samplingRate = RateUnit => out.result = TRUE

\* a sampler of rate 1 asked with the largest draw
C11_Witness ==
    /\ out.op = "IsSampled"
    /\ sampler.samplingRate = RateUnit
    /\ out.draw = RateUnit - 1
    /\ out.result = TRUE

\* C12: in NewSpanContext an IsSampled option of value v makes the sampled bit
\* of the root's flag byte equal to v without any call of the sampler; with
\* no such option the sampler is called exactly once and the bit is its
\* answer.
C12_SampledResolution ==
    out.op = "NewSpanContext" =>
        LET bit == Bit(FlagByte(out.idx), 1) = 1
        IN /\ out.sco.IsSampled = "true" => bit /\ out.asked = 0
           /\ out.sco.IsSampled = "false" => ~bit /\ out.asked = 0
           /\ out.sco.IsSampled = "nil" =>
                 /\ out.asked = 1
                 /\ bit <=> (out.draw < scg.sampler.samplingRate)

\* the option says no where the sampler would have said yes
C12_Witness ==
    /\ out.op = "NewSpanContext"
    /\ out.sco.IsSampled = "false"
    /\ out.draw < scg.sampler.samplingRate
    /\ Bit(FlagByte(out.idx), 1) = 0
    /\ out.asked = 0

\* C13: applied to a nil SpanContext, GetTypeMarker returns 0 and
\* IsSpanContextDebug, IsSpanContextSampled, IsSpanContextFromStressTest,
\* IsSpanContextShadow and IsSpanContextCritical return false; each of them
\* returns (none reads a field of the absent context).
C13_NilContextDefaults ==
    (out.op = "Decode" /\ out.idx = 0) =>
        /\ out.marker = 0
        /\ out.debug = FALSE
        /\ out.sampled = FALSE
        /\ out.stress = FALSE
        /\ out.shadow = FALSE
        /\ out.critical = FALSE

\* the decoder was applied to nil while a context with flags set is alive
C13_Witness ==
    /\ out.op = "Decode"
    /\ out.idx = 0
    /\ Len(scs) = 1
    /\ FlagByte(1) = 255

\* ------------------------------------------------------------------------
\* global.go: the registry of the global tracer
\* ------------------------------------------------------------------------
\* the tracers handed to SetGlobalTracer: another no-op tracer and two others
TracerArgs ==
    {[impl |-> "NoopTracer", id |-> 1], [impl |-> "TracerA", id |-> 2],
     [impl |-> "TracerB", id |-> 3]}

\* NewNoopTracer() called by GlobalTracer when the slot holds nothing usable
FallbackNoop == [impl |-> "NoopTracer", id |-> 4]

notRegistry == <<traceVars, samplerVars, noopVars, loggerVars>>

\* SetGlobalTracer(tracer): the call begins, registeredTracer{tracer} is built
BeginSet(p, tracer) ==
    /\ gtc[p].pc = "idle"
    /\ gtc' = [gtc EXCEPT ![p] = [pc |-> "store",
                                  reg |-> [tracer |-> tracer]]]
    /\ called' = called \cup {tracer}
    /\ UNCHANGED <<globalTracer, stores, out, notRegistry>>

\* a Store that writes the two words of the interface value one call apart
StoreTracerTorn(p) ==
    /\ gtc[p].pc = "store"
    /\ globalTracer' = [tracer |-> [impl |-> gtc[p].reg.tracer.impl,
                                    id |-> globalTracer.tracer.id]]
    /\ stores' = Append(stores, gtc[p].reg.tracer)
    /\ gtc' = [gtc EXCEPT ![p] = [pc |-> "idle"]]
    /\ UNCHANGED <<called, out, notRegistry>>

\* globalTracer.Store(registeredTracer{tracer: tracer}), atomic; the call ends
StoreTracer(p) ==
    /\ gtc[p].pc = "store"
    /\ globalTracer' = gtc[p].reg
    /\ stores' = Append(stores, gtc[p].reg.tracer)
    /\ gtc' = [gtc EXCEPT ![p] = [pc |-> "idle"]]
    /\ UNCHANGED <<called, out, notRegistry>>

\* GlobalTracer(): globalTracer.Load(), atomic; at is the number of stores
\* completed when the value was read
LoadTracer(p) ==
    /\ gtc[p].pc = "idle"
    /\ gtc' = [gtc EXCEPT ![p] = [pc |-> "loaded", val |-> globalTracer,
                                  at |-> Len(stores)]]
    /\ UNCHANGED <<globalTracer, stores, called, out, notRegistry>>

\* GlobalTracer(): the type assertion and the return
ReturnTracer(p) ==
    /\ gtc[p].pc = "loaded"
    /\ out' = [op |-> "GlobalTracer", at |-> gtc[p].at,
               result |-> IF gtc[p].val # Nil THEN gtc[p].val.tracer
                          ELSE FallbackNoop]
    /\ gtc' = [gtc EXCEPT ![p] = [pc |-> "idle"]]
    /\ UNCHANGED <<globalTracer, stores, called, notRegistry>>

RegistrySet ==
    \/ \E p \in Procs, t \in TracerArgs :
          Cardinality({q \in Procs : gtc[q].pc = "store"}) + Len(stores)
              < MaxStores /\ BeginSet(p, t)
    \/ \E p \in Procs : StoreTracer(p)

RegistryGet ==
    \/ \E p \in Procs : LoadTracer(p)
    \/ \E p \in Procs : ReturnTracer(p)

NextRegistry == RegistrySet \/ RegistryGet

SpecRegistry == Init /\ [][NextRegistry]_vars

\* the tracer the slot holds after the first n stores
StoredAfter(n) == IF n = 0 THEN InitialNoop ELSE stores[n]

\* C14: GlobalTracer returns the initial no-op tracer as long as no
\* SetGlobalTracer has stored; whatever the interleaving, a GlobalTracer call
\* returns the initial no-op tracer or the exact argument of a SetGlobalTracer
\* call, namely the latest one stored when it read the slot; when no
\* SetGlobalTracer is under way the slot holds the argument of the last store.
C14_GlobalTracerRegistry ==
    /\ out.op = "GlobalTracer" =>
          /\ out.result \in {InitialNoop} \cup called
          /\ out.result = StoredAfter(out.at)
    /\ \A p \in Procs : gtc[p].pc = "loaded" =>
          gtc[p].val = [tracer |-> StoredAfter(gtc[p].at)]
    /\ (\A p \in Procs : gtc[p].pc # "store") =>
          globalTracer.tracer = StoredAfter(Len(stores))

\* a reader returned the first tracer stored after a second one was stored
C14_Witness ==
    /\ out.op = "GlobalTracer"
    /\ Len(stores) = 2
    /\ stores[1] # stores[2]
    /\ out.at = 1
    /\ out.result = stores[1]

\* ------------------------------------------------------------------------
\* noop.go: the no-op tracer and its spans
\* ------------------------------------------------------------------------
SpanNames == {"", "op"}

\* NoopTracer.NewSpanWithOptions(name, spanContext, option...)
NoopNewSpanWithOptions(nt, name, spanContext) ==
    [span |-> [ctx |-> spanContext, tracer |-> nt], err |-> Nil]

\* NoopTracer.NewSpan(name, spanContext)
NoopNewSpan(nt, name, spanContext) ==
    NoopNewSpanWithOptions(nt, name, spanContext)

notNoop == <<samplerVars, registryVars, loggerVars>>

\* a call of NewSpan or NewSpanWithOptions on the no-op tracer, i being the
\* SpanContext argument (0: nil)
TracerNewSpan(method, name, i) ==
    LET r == IF method = "NewSpan"
             THEN NoopNewSpan(InitialNoop, name, i)
             ELSE NoopNewSpanWithOptions(InitialNoop, name, i)
    IN /\ spans' = Append(spans, r.span)
       /\ out' = [op |-> method, name |-> name, arg |-> i, status |-> "ok",
                  err |-> r.err, span |-> Len(spans) + 1]
       /\ UNCHANGED <<traceVars, notNoop>>

\* ns.Context()
SpanContextOf(s) ==
    /\ out' = [op |-> "Context", of |-> s, status |-> "ok",
               ctx |-> spans[s].ctx]
    /\ UNCHANGED <<traceVars, spans, notNoop>>

\* NewChildSpan handing the span's own context to the tracer
SpanNewChildSpanSameContext(s, name, drawn) ==
    LET r == NoopNewSpan(spans[s].tracer, name, spans[s].ctx)
    IN /\ spans[s].ctx # 0
       /\ spans' = Append(spans, r.span)
       /\ out' = [op |-> "NewChildSpan", of |-> s, status |-> "ok",
                  err |-> r.err, seq |-> scs[spans[s].ctx].childSequenceID,
                  before |-> scs[spans[s].ctx].id, span |-> Len(spans) + 1]
       /\ UNCHANGED <<traceVars, notNoop>>

\* ns.NewChildSpan(name): ns.ctx.NewChildSpanContext(), a method call on a nil
\* interface when ns.ctx is nil, then ns.tracer.NewSpan(name, childSpanContext)
SpanNewChildSpan(s, name, drawn) ==
    LET c == spans[s].ctx
    IN IF c = 0
       THEN /\ out' = [op |-> "NewChildSpan", of |-> s, status |-> "panic"]
            /\ UNCHANGED <<traceVars, spans, notNoop>>
       ELSE LET seq == scs[c].childSequenceID
                r == NoopNewSpan(spans[s].tracer, name, Len(scs) + 1)
            IN /\ scs[c].mutex = 0
               /\ scs' = Append([scs EXCEPT ![c].childSequenceID = AddU16(@, 1)],
                                ChildOf(scs[c], seq, drawn))
               /\ origin' = Append(origin, [kind |-> "child", of |-> c])
               /\ spans' = Append(spans, r.span)
               /\ out' = [op |-> "NewChildSpan", of |-> s, status |-> "ok",
                          err |-> r.err, seq |-> seq, before |-> scs[c].id,
                          span |-> Len(spans) + 1]
               /\ UNCHANGED <<scg, pc, tgt, cur, notNoop>>

\* SetTag, SetTags, SetDebugTags, LogFields, LogDebugFields: return ns
Mutators == {"SetTag", "SetTags", "SetDebugTags", "LogFields", "LogDebugFields"}

SpanMutate(s, method) ==
    /\ out' = [op |-> method, of |-> s, status |-> "ok", result |-> s]
    /\ UNCHANGED <<traceVars, spans, notNoop>>

\* Finish, FinishWithOptions: empty bodies
Finishers == {"Finish", "FinishWithOptions"}

SpanFinish(s, method) ==
    /\ out' = [op |-> method, of |-> s, status |-> "ok"]
    /\ UNCHANGED <<traceVars, spans, notNoop>>

\* the contexts the spans are made over: a fresh root, one received at the
\* deepest level
NoopContexts ==
    /\ Room(MaxCtx)
    /\ \/ \E ts \in TimeStamps : GenRoot(DefaultSCO, 0, ts, Rep(0, 5), Rep(0, 5))
       \/ FromBytes(DeepID, 0)

NoopTracerCalls ==
    /\ Len(spans) < MaxSpans
    /\ \E method \in {"NewSpan", "NewSpanWithOptions"}, name \in SpanNames,
          i \in 0..Len(scs) : TracerNewSpan(method, name, i)

NoopSpanCalls ==
    \E s \in 1..Len(spans) :
        \/ SpanContextOf(s)
        \/ /\ Len(spans) < MaxSpans
           /\ spans[s].ctx # 0 => Room(MaxCtx)
           /\ \E name \in SpanNames : SpanNewChildSpan(s, name, Rep(0, 5))

NextNoop == NoopContexts \/ NoopTracerCalls \/ NoopSpanCalls

\* the roots come from a generator with the default sampler
InitNoop == Init /\ scg = NewSpanContextGenerator(InstanceHash, Nil)

\* The hierarchy under no-op spans.
SpecNoop == InitNoop /\ [][NextNoop]_vars

NoopUnitContexts ==
    /\ Room(MaxUnitCtx)
    /\ \E ts \in TimeStamps : GenRoot(DefaultSCO, 0, ts, Rep(0, 5), Rep(0, 5))

NoopSpanMethods ==
    \E s \in 1..Len(spans) :
        \/ SpanContextOf(s)
        \/ /\ Len(spans) < MaxSpans
           /\ \E name \in SpanNames : SpanNewChildSpan(s, name, Rep(0, 5))
        \/ \E method \in Mutators : SpanMutate(s, method)
        \/ \E method \in Finishers : SpanFinish(s, method)

NextNoopCalls == NoopUnitContexts \/ NoopTracerCalls \/ NoopSpanMethods

\* Every method of the no-op tracer and of its spans.
SpecNoopCalls == InitNoop /\ [][NextNoopCalls]_vars

\* the context of the span NewChildSpan was called on, and of the one returned
NoopParent == spans[out.of].ctx
NoopChild == spans[out.span].ctx

\* C15 (as stated): a NewChildSpan call on a NoopSpan over context c returns,
\* with no error, a span whose context has c's TraceID, c's SpanID as its
\* ParentID, level(c) + 1 as its level and, as its sequence number, the value
\* of c's counter before the call, which is the number of earlier calls; the
\* identifier bytes of c are left as they were.
C15_NoopChildAdvances ==
    (out.op = "NewChildSpan" /\ out.status = "ok") =>
        /\ out.err = Nil
        /\ TraceID(scs[NoopChild]) = TraceID(scs[NoopParent])
        /\ ParentID(scs[NoopChild]) = SpanID(scs[NoopParent])
        /\ level(scs[NoopChild]) = level(scs[NoopParent]) + 1
        /\ SequenceOf(scs[NoopChild]) = out.seq
        /\ out.seq = Cardinality(Children(NoopParent)) - 1
        /\ scs[NoopParent].id = out.before

\* C15 (amended): the same with the level taken modulo 256, the level being
\* one byte.
C15_NoopChildAdvancesMod256 ==
    (out.op = "NewChildSpan" /\ out.status = "ok") =>
        /\ out.err = Nil
        /\ TraceID(scs[NoopChild]) = TraceID(scs[NoopParent])
        /\ ParentID(scs[NoopChild]) = SpanID(scs[NoopParent])
        /\ level(scs[NoopChild]) = (level(scs[NoopParent]) + 1) % 256
        /\ SequenceOf(scs[NoopChild]) = out.seq
        /\ out.seq = Cardinality(Children(NoopParent)) - 1
        /\ scs[NoopParent].id = out.before

\* the second NewChildSpan on a span over a context at level 255
C15_Witness ==
    /\ out.op = "NewChildSpan"
    /\ out.status = "ok"
    /\ level(scs[NoopParent]) = 255
    /\ level(scs[NoopChild]) = 0
    /\ out.seq = 1

\* C16 (as stated): NewSpan and NewSpanWithOptions of the no-op tracer return
\* a span and no error for every name and every SpanContext argument, nil
\* included, and every method of a span so made returns without error or
\* crash, the tag and log mutators returning the span they were called on.
C16_NoopNeverFails ==
    /\ out.op \in {"NewSpan", "NewSpanWithOptions"} =>
          /\ out.status = "ok"
          /\ out.err = Nil
          /\ out.span \in 1..Len(spans)
          /\ spans[out.span].ctx = out.arg
    /\ out.op \in {"Context", "NewChildSpan"} \cup Mutators \cup Finishers =>
          out.status = "ok"
    /\ (out.op = "NewChildSpan" /\ out.status = "ok") => out.err = Nil
    /\ out.op \in Mutators => out.result = out.of

\* ------------------------------------------------------------------------
\* logger.go: the log level and its timed reset
\* ------------------------------------------------------------------------
\* env.IsLive()
IsLive == env = "live"

\* defaultLevel()
defaultLevel == IF IsLive THEN InfoLvl ELSE DebugLvl

\* the levels and durations (hours) handed to SetLevel, the levels of a Config
SetLevels == {DebugLvl, InfoLvl, WarnLvl}
Durations == {0, maxResetLvlDur + 1}
ConfigLevels == {DebugLvl, InfoLvl, WarnLvl}

notLogger == <<traceVars, samplerVars, registryVars, noopVars>>
notLevel == <<notLogger, nameVars, optionVars, onceVars>>

\* nothing of package log has been called yet
Untouched == out.op \in {"none", "Setenv"}

\* the deployment sets ENV before the program uses the package
Setenv(e) ==
    /\ Untouched
    /\ env' = e
    /\ out' = [op |-> "Setenv", arg |-> e]
    /\ UNCHANGED <<logLevel, initialLogLevel, resetVer, timers, cbs, usr,
                   lastSet, notLevel>>

\* initLogLevel(config): SetLevel(lvl, 0) takes the plain branch, lvl being
\* at least InfoLvl in the live environment
initLogLevel(configLevel) ==
    LET lvl == Max2(defaultLevel, configLevel)
    IN /\ lastSet.n = 0 /\ usr.pc = "idle"
       /\ initialLogLevel' = lvl
       /\ logLevel' = lvl
       /\ out' = [op |-> "initLogLevel", arg |-> configLevel]
       /\ UNCHANGED <<env, resetVer, timers, cbs, usr, lastSet, notLevel>>

\* SetLevel(level, duration): the test of the environment and of the level,
\* and the clamp of the duration
SetLevelBegin(newLevel, duration) ==
    /\ usr.pc = "idle"
    /\ usr' = IF IsLive /\ newLevel < InfoLvl
              THEN [pc |-> "add", level |-> newLevel,
                    duration |-> Min2(duration, maxResetLvlDur)]
              ELSE [pc |-> "store", level |-> newLevel]
    /\ lastSet' = [n |-> lastSet.n + 1, level |-> newLevel, timer |-> 0]
    /\ out' = [op |-> "SetLevel", level |-> newLevel, duration |-> duration]
    /\ UNCHANGED <<env, logLevel, initialLogLevel, resetVer, timers, cbs,
                   notLevel>>

\* ver := resetVer.Add(1), and the wrap of the version past maxResetVer
SetLevelAdd ==
    /\ usr.pc = "add"
    /\ LET ver == resetVer + 1
           v == IF ver > maxResetVer THEN ver % maxResetVer ELSE ver
       IN /\ resetVer' = v
          /\ usr' = [usr EXCEPT !.pc = "afterfunc"] @@ [ver |-> v]
    /\ UNCHANGED <<env, logLevel, initialLogLevel, timers, cbs, lastSet, out,
                   notLevel>>

\* time.AfterFunc(duration, func() { resetLevel(ver) })
SetLevelAfterFunc ==
    /\ usr.pc = "afterfunc"
    /\ timers' = timers \cup {[id |-> lastSet.n, ver |-> usr.ver,
                                duration |-> usr.duration]}
    /\ lastSet' = [lastSet EXCEPT !.timer = lastSet.n]
    /\ usr' = [pc |-> "store", level |-> usr.level]
    /\ UNCHANGED <<env, logLevel, initialLogLevel, resetVer, cbs, out,
                   notLevel>>

\* logLevel.Store(int32(level)); SetLevel returns
SetLevelStore ==
    /\ usr.pc = "store"
    /\ logLevel' = usr.level
    /\ usr' = [pc |-> "idle"]
    /\ UNCHANGED <<env, initialLogLevel, resetVer, timers, cbs, lastSet, out,
                   notLevel>>

\* the timer fires: its function starts in a goroutine of its own
TimerFire(t) ==
    /\ t \in timers
    /\ timers' = timers \ {t}
    /\ cbs' = cbs \cup {[id |-> t.id, ver |-> t.ver, pc |-> "getlevel"]}
    /\ UNCHANGED <<env, logLevel, initialLogLevel, resetVer, usr, lastSet,
                   out, notLevel>>

\* resetLevel: GetLevel() < InfoLvl
ResetGetLevel(c) ==
    /\ c \in cbs /\ c.pc = "getlevel"
    /\ cbs' = IF logLevel < InfoLvl
              THEN (cbs \ {c}) \cup {[c EXCEPT !.pc = "loadver"]}
              ELSE cbs \ {c}
    /\ UNCHANGED <<env, logLevel, initialLogLevel, resetVer, timers, usr,
                   lastSet, out, notLevel>>

\* resetLevel: resetVer.Load() == ver
ResetLoadVer(c) ==
    /\ c \in cbs /\ c.pc = "loadver"
    /\ cbs' = IF resetVer = c.ver
              THEN (cbs \ {c}) \cup {[c EXCEPT !.pc = "setlevel"]}
              ELSE cbs \ {c}
    /\ UNCHANGED <<env, logLevel, initialLogLevel, resetVer, timers, usr,
                   lastSet, out, notLevel>>

\* resetLevel: SetLevel(initialLogLevel, 0), which arms no timer as long as
\* initialLogLevel is at least InfoLvl
ResetSetLevel(c) ==
    /\ c \in cbs /\ c.pc = "setlevel"
    /\ ~(IsLive /\ initialLogLevel < InfoLvl)
    /\ logLevel' = initialLogLevel
    /\ cbs' = cbs \ {c}
    /\ UNCHANGED <<env, initialLogLevel, resetVer, timers, usr, lastSet, out,
                   notLevel>>

LevelSetup ==
    \/ \E e \in {"live", "dev"} : Setenv(e)
    \/ \E l \in ConfigLevels : initLogLevel(l)

LevelSet ==
    \/ \E l \in SetLevels, d \in Durations :
          lastSet.n < MaxSetLevel /\ SetLevelBegin(l, d)
    \/ SetLevelAdd
    \/ SetLevelAfterFunc
    \/ SetLevelStore

LevelReset ==
    \/ \E t \in timers : TimerFire(t)
    \/ \E c \in cbs : ResetGetLevel(c)
    \/ \E c \in cbs : ResetLoadVer(c)
    \/ \E c \in cbs : ResetSetLevel(c)

NextLevel == LevelSetup \/ LevelSet \/ LevelReset

SpecLevel == Init /\ [][NextLevel]_vars

\* the timer armed by the user's last SetLevel call has not fired yet
LastTimerPending == \E t \in timers : t.id = lastSet.timer
\* it has fired and its callback has returned
LastTimerDone ==
    /\ lastSet.timer # 0
    /\ ~LastTimerPending
    /\ \A c \in cbs : c.id # lastSet.timer

\* C17 (as stated): in the live environment, once the user's last call
\* SetLevel(l, d) with l below Info has returned, GetLevel() is l as long as
\* the timer of that call has not fired, and it is the initial log level once
\* the timer has fired and its callback has returned, whatever d and however
\* the callback interleaves with the steps of SetLevel.
C17_TimedReset ==
    (IsLive /\ usr.pc = "idle" /\ lastSet.n > 0 /\ lastSet.level < InfoLvl) =>
        /\ LastTimerPending => logLevel = lastSet.level
        /\ LastTimerDone => logLevel = initialLogLevel

\* ------------------------------------------------------------------------
\* logger.go: the file names of the split levels
\* ------------------------------------------------------------------------
SysLogFileName == "sys"
SysErrorLogFileName == "sys_error"
DefaultLogFileName == "server"
DefaultTracingFileName == "traffic_recording"

\* checkLogFileNameValid comparing with the entry of the level itself too
checkLogFileNameValidAnyLevel(names, lvl, newName) ==
    IF \/ newName = ""
       \/ newName = SysLogFileName
       \/ newName = SysErrorLogFileName
       \/ newName = DefaultLogFileName
       \/ newName = DefaultTracingFileName
    THEN FALSE
    ELSE ~\E l \in DOMAIN names : newName = names[l]

\* checkLogFileNameValid without the comparison with the other levels' names
checkLogFileNameValidReservedOnly(names, lvl, newName) ==
    ~(\/ newName = ""
      \/ newName = SysLogFileName
      \/ newName = SysErrorLogFileName
      \/ newName = DefaultLogFileName
      \/ newName = DefaultTracingFileName)

checkLogFileNameValid(names, lvl, newName) ==
    IF \/ newName = ""
       \/ newName = SysLogFileName
       \/ newName = SysErrorLogFileName
       \/ newName = DefaultLogFileName
       \/ newName = DefaultTracingFileName
    THEN FALSE
    ELSE ~\E l \in DOMAIN names : l # lvl /\ newName = names[l]

\* nameMap[level] = newName
MapSet(names, lvl, newName) ==
    [l \in DOMAIN names \cup {lvl} |-> IF l = lvl THEN newName ELSE names[l]]

\* the arguments of SetLogFileName: a level with an entry, one without, and
\* names of every kind
NameLevels == {DebugLvl, InfoLvl, PanicLvl}
NewNames ==
    {"", SysLogFileName, SysErrorLogFileName, DefaultLogFileName,
     DefaultTracingFileName, "info", "warn", "myInfo", "tracing"}

notNames == <<notLogger, levelVars, optionVars, onceVars>>

\* SetLogFileName(level, newName)
SetLogFileName(lvl, newName) ==
    LET ok == checkLogFileNameValid(nameMap, lvl, newName)
    IN /\ nameMap' = IF ok THEN MapSet(nameMap, lvl, newName) ELSE nameMap
       /\ out' = [op |-> "SetLogFileName", level |-> lvl, name |-> newName,
                  result |-> ok, before |-> nameMap]
       /\ UNCHANGED notNames

NextNames == \E lvl \in NameLevels, newName \in NewNames : SetLogFileName(lvl, newName)

SpecNames == Init /\ [][NextNames]_vars

\* the name is empty, reserved, or the name of another level in the table
NameRefused(names, lvl, nm) ==
    \/ nm \in {"", "sys", "sys_error", "server", "traffic_recording"}
    \/ \E l \in DOMAIN names : l # lvl /\ names[l] = nm

\* C18: SetLogFileName(level, name) returns false and leaves the table as it
\* was when name is empty, reserved (sys, sys_error, server,
\* traffic_recording) or assigned to another level; otherwise it returns true
\* and the table differs from the old one in the entry of level alone, which
\* is name.
C18_SetLogFileName ==
    out.op = "SetLogFileName" =>
        IF NameRefused(out.before, out.level, out.name)
        THEN out.result = FALSE /\ nameMap = out.before
        ELSE /\ out.result = TRUE
             /\ nameMap[out.level] = out.name
             /\ DOMAIN nameMap = DOMAIN out.before \cup {out.level}
             /\ \A l \in DOMAIN out.before :
                   l # out.level => nameMap[l] = out.before[l]

\* a name freed by an earlier rename is taken by another level
C18_Witness ==
    /\ out.op = "SetLogFileName"
    /\ out.result = TRUE
    /\ out.name = "info"
    /\ out.level = DebugLvl
    /\ out.before[InfoLvl] = "myInfo"

\* ------------------------------------------------------------------------
\* NewLogger and its options
\* ------------------------------------------------------------------------
\* env.GetFilePath(logDir, filename) with ORCHESTRATOR not set: the path
\* logDir/filename.log, held as its three parts
GetFilePath(logDir, filename) ==
    [dir |-> IF logDir = "" THEN "./log" ELSE logDir, file |-> filename,
     ext |-> ".log"]

\* the option functions, each held as the values it closes over
WithLogFileName(logPath, fileName) ==
    [opt |-> "WithLogFileName", logPath |-> logPath,
     fileName |-> IF fileName = "" THEN "customize" ELSE fileName]
WithCompress(compress) == [opt |-> "WithCompress", compress |-> compress]
WithPrintToStdout(printToStdout) ==
    [opt |-> "WithPrintToStdout", printToStdout |-> printToStdout]

\* o(optCopy): the option function applied to the record
ApplyOption(o, f) ==
    CASE f.opt = "WithLogFileName" ->
             [o EXCEPT !.Filename = GetFilePath(f.logPath, f.fileName)]
      [] f.opt = "WithCompress" -> [o EXCEPT !.Compress = f.compress]
      [] f.opt = "WithPrintToStdout" -> [o EXCEPT !.Stdout = f.printToStdout]

\* for _, o := range opts { o(optCopy) }
RECURSIVE ApplyOptions(_, _)
ApplyOptions(o, opts) ==
    IF opts = <<>> THEN o
    ELSE ApplyOptions(ApplyOption(o, Head(opts)), Tail(opts))

\* the option lists of the NewLogger calls
OptionLists ==
    {<<>>,
     <<WithLogFileName("", "request"), WithCompress(FALSE)>>,
     <<WithLogFileName("test", "file")>>,
     <<WithLogFileName("", "request")>>,
     <<WithCompress(FALSE)>>,
     <<WithLogFileName("", "")>>,
     <<WithCompress(TRUE)>>,
     <<WithPrintToStdout(TRUE)>>,
     <<WithPrintToStdout(FALSE), WithCompress(TRUE)>>}

notOptions == <<notLogger, levelVars, nameVars, onceVars>>

\* NewLogger(opts...): optCopy := defaultOptions copies the pointer, so the
\* options write into the record defaultOptions points to; newLogger(*optCopy)
\* builds the logger from the record as it is after the loop
NewLogger(opts) ==
    /\ defaultOptions' = ApplyOptions(defaultOptions, opts)
    /\ out' = [op |-> "NewLogger", opts |-> opts,
               built |-> ApplyOptions(defaultOptions, opts)]
    /\ UNCHANGED notOptions

NextOptions == \E opts \in OptionLists : NewLogger(opts)

SpecOptions == Init /\ [][NextOptions]_vars

\* the options of the given kind in a list
OptionsOf(opts, kind) == {i \in 1..Len(opts) : opts[i].opt = kind}

\* C19 (as stated): whatever NewLogger calls came before, a logger is built
\* from the default options (file customize, no compression, no stdout)
\* changed by the options of its own call alone: with no file-name option it
\* writes to the customize file, with no compression option it does not
\* compress, with no stdout option it does not print to stdout.
C19_OptionsDoNotCarryOver ==
    out.op = "NewLogger" =>
        /\ OptionsOf(out.opts, "WithLogFileName") = {} =>
              out.built.Filename = [dir |-> "", file |-> "customize", ext |-> ""]
        /\ OptionsOf(out.opts, "WithCompress") = {} =>
              out.built.Compress = FALSE
        /\ OptionsOf(out.opts, "WithPrintToStdout") = {} =>
              out.built.Stdout = FALSE

\* ------------------------------------------------------------------------
\* logger.go: InitLogger and the lazily initialised loggers
\* ------------------------------------------------------------------------
\* getDefaultConfig() with SPLIT_LOG not set
SplitError == "error"
SplitWarn == "warn"
SplitInfo == "info"
SplitDebug == "debug"
SplitNone == "none"
levelMap ==
    (SplitDebug :> DebugLvl) @@ (SplitInfo :> InfoLvl)
        @@ (SplitWarn :> WarnLvl) @@ (SplitError :> ErrorLvl)

defaultConfig ==
    [Level |-> InfoLvl, LogFileName |-> "", TracingLogFileName |-> "",
     PrintToStd |-> PrintToStd_NONE, PrintToStdout |-> FALSE, Path |-> "",
     SplitLevel |-> SplitNone]
\* the Configs handed to InitLogger
InitConfigs ==
    {[defaultConfig EXCEPT !.LogFileName = "test"],
     [defaultConfig EXCEPT !.Level = DebugLvl, !.TracingLogFileName = "tracing",
                           !.PrintToStd = PrintToStd_ALL]}

\* the level initLogLevel(config) stores in initialLogLevel and logLevel
levelOf(config) == Max2(defaultLevel, config.Level)

\* GetLevel(): the level held by logLevel
GetLevel == logLevel

\* the level enabler functions, each held as the values it closes over;
\* LefEnabled(lef, lvl) is the call lef(lvl)
LefEnabled(lef, lvl) ==
    CASE lef.f = "level" -> lvl >= GetLevel
      [] lef.f = "below" -> lvl >= GetLevel /\ lvl < lef.splitLevel
      [] lef.f = "equal" -> lvl >= GetLevel /\ lvl = lef.l
      [] lef.f = "error" -> lvl >= GetLevel /\ lvl >= ErrorLvl
      [] lef.f = "sysError" -> lvl >= ErrorLvl

\* newLogger(opts...): a logger not handed out before, n standing for its
\* address, with one core per option; Stdout and files tell where the cores
\* write
newLogger(opts) ==
    [n |-> Len(built) + 1,
     Stdout |-> \E i \in DOMAIN opts : opts[i].Stdout,
     files |-> {opts[i].Filename.file :
                   i \in {j \in DOMAIN opts : ~opts[j].Stdout}},
     cores |-> opts]

\* the file name after the defaulting of initDefaultLogger and
\* initTracingLogger
NameOrDefault(name, default) ==
    IF name = "" \/ \E l \in DOMAIN nameMap : nameMap[l] = name
    THEN default ELSE name

\* the option writing to os.Stdout, its Filename left empty
stdoutOption ==
    [Stdout |-> TRUE, Filename |-> [dir |-> "", file |-> "", ext |-> ""],
     Lef |-> [f |-> "level"]]

getOption(config, fileName, enablerFunc) ==
    [Stdout |-> FALSE, Filename |-> GetFilePath(config.Path, fileName),
     Lef |-> enablerFunc]

getDefaultOpt(config) ==
    <<getOption(config, config.LogFileName, [f |-> "level"])>>

checkLevel(splitLevel) ==
    IF splitLevel = "" \/ splitLevel = SplitNone
    THEN [level |-> 0, ok |-> FALSE]
    ELSE IF splitLevel \in DOMAIN levelMap
         THEN [level |-> levelMap[splitLevel], ok |-> TRUE]
         ELSE [level |-> 0, ok |-> FALSE]

\* the levels a logger can be asked to write at, in ascending order
RecordLevels ==
    <<DebugLvl, InfoLvl, WarnLvl, ErrorLvl, DPanicLvl, PanicLvl, FatalLvl>>

\* getSplitOpt with the error level given a file of its own by the loop too
getSplitOptErrorTwice(config, splitLevel) ==
    LET ls == SelectSeq(RecordLevels,
                        LAMBDA l : l \in DOMAIN nameMap /\ l >= splitLevel)
    IN (IF splitLevel # DebugLvl
        THEN <<getOption(config, config.LogFileName,
                         [f |-> "below", splitLevel |-> splitLevel])>>
        ELSE <<>>)
       \o [i \in 1..Len(ls) |->
             getOption(config, nameMap[ls[i]], [f |-> "equal", l |-> ls[i]])]
       \o <<getOption(config, nameMap[ErrorLvl], [f |-> "error"])>>

\* getSplitOpt(config, splitLevel); the range over nameMap is taken in
\* ascending order of the levels, the order of the cores having no effect on
\* which of them take a record
getSplitOpt(config, splitLevel) ==
    LET ls == SelectSeq(RecordLevels,
                        LAMBDA l : /\ l \in DOMAIN nameMap
                                   /\ l >= splitLevel /\ l # ErrorLvl)
    IN (IF splitLevel # DebugLvl
        THEN <<getOption(config, config.LogFileName,
                         [f |-> "below", splitLevel |-> splitLevel])>>
        ELSE <<>>)
       \o [i \in 1..Len(ls) |->
             getOption(config, nameMap[ls[i]], [f |-> "equal", l |-> ls[i]])]
       \o <<getOption(config, nameMap[ErrorLvl], [f |-> "error"])>>

\* the logger initDefaultLogger(config) assigns to logger
initDefaultLogger(config) ==
    LET cfg == [config EXCEPT
                  !.LogFileName = NameOrDefault(@, DefaultLogFileName)]
        split == checkLevel(cfg.SplitLevel)
    IN IF (cfg.PrintToStd \in {PrintToStd_USERLOG, PrintToStd_ALL}
               \/ cfg.PrintToStdout) /\ ~IsLive
       THEN newLogger(<<stdoutOption>>)
       ELSE IF split.ok
            THEN newLogger(getSplitOpt(cfg, split.level))
            ELSE newLogger(getDefaultOpt(cfg))

\* the logger initSystemLogger(config) assigns to sysLogger
initSystemLogger(config) ==
    IF (config.PrintToStd \in {PrintToStd_SYSLOG, PrintToStd_ALL}
            \/ config.PrintToStdout) /\ ~IsLive
    THEN newLogger(<<stdoutOption>>)
    ELSE newLogger(<<getOption(config, SysErrorLogFileName, [f |-> "sysError"]),
                     getOption(config, SysLogFileName, [f |-> "level"])>>)

\* the logger initTracingLogger(config) assigns to tracingLogger
initTracingLogger(config) ==
    IF (config.PrintToStd \in {PrintToStd_TRACING, PrintToStd_ALL}
            \/ config.PrintToStdout) /\ ~IsLive
    THEN newLogger(<<stdoutOption>>)
    ELSE newLogger(<<getOption(config,
                               NameOrDefault(config.TracingLogFileName,
                                             DefaultTracingFileName),
                               [f |-> "level"])>>)

\* the Onces a call goes through, in order, and the Config its functions use
OncesOf(call) ==
    CASE call = "GetLogger" -> <<"logger">>
      [] call = "InitLogger" -> <<"logger", "sysLogger", "tracingLogger">>

ConfigsOf(call) ==
    CASE call = "GetLogger" -> {defaultConfig}
      [] call = "InitLogger" -> InitConfigs

notOnce == <<notLogger, nameVars, optionVars>>
levelRest == <<env, resetVer, timers, cbs, usr, lastSet>>

\* the call moves on to its next Once, or to its return
Advance(c) ==
    IF Len(c.todo) = 1 THEN [c EXCEPT !.pc = "ret", !.todo = <<>>]
    ELSE [c EXCEPT !.pc = "once", !.todo = Tail(c.todo)]

\* a goroutine calls GetLogger or InitLogger
CallBegin(p, call, config) ==
    /\ lgc[p].pc = "idle"
    /\ lgc' = [lgc EXCEPT ![p] =
                 [pc |-> IF call = "InitLogger" THEN "level" ELSE "once",
                  call |-> call, config |-> config, todo |-> OncesOf(call)]]
    /\ UNCHANGED <<loggers, onces, built, out, levelVars, notOnce>>

\* InitLogger: initLogLevel(config), before and outside any Once
InitLoggerLevel(p) ==
    /\ lgc[p].pc = "level"
    /\ initialLogLevel' = levelOf(lgc[p].config)
    /\ logLevel' = levelOf(lgc[p].config)
    /\ lgc' = [lgc EXCEPT ![p].pc = "once"]
    /\ UNCHANGED <<loggers, onces, built, out, levelRest, notOnce>>

\* Once.Do: the fast path, o.done.Load()
OnceFast(p) ==
    /\ lgc[p].pc = "once"
    /\ lgc' = [lgc EXCEPT ![p] = IF onces[Head(lgc[p].todo)].done
                                 THEN Advance(lgc[p])
                                 ELSE [lgc[p] EXCEPT !.pc = "lock"]]
    /\ UNCHANGED <<loggers, onces, built, out, levelVars, notOnce>>

\* doSlow entering f without testing done again under the mutex
OnceLockNoRecheck(p) ==
    /\ lgc[p].pc = "lock"
    /\ onces[Head(lgc[p].todo)].m = 0
    /\ onces' = [onces EXCEPT ![Head(lgc[p].todo)].m = p]
    /\ lgc' = [lgc EXCEPT ![p].pc = "f"]
    /\ UNCHANGED <<loggers, built, out, levelVars, notOnce>>

\* Once.doSlow: o.m.Lock(); if o.done.Load() == 0
OnceLock(p) ==
    /\ lgc[p].pc = "lock"
    /\ onces[Head(lgc[p].todo)].m = 0
    /\ onces' = [onces EXCEPT ![Head(lgc[p].todo)].m = p]
    /\ lgc' = [lgc EXCEPT ![p].pc = IF onces[Head(lgc[p].todo)].done
                                    THEN "unlock" ELSE "f"]
    /\ UNCHANGED <<loggers, built, out, levelVars, notOnce>>

\* f(): the function handed to Do; the one of GetLogger runs initLogLevel
\* before initDefaultLogger
OnceF(p) ==
    LET k == Head(lgc[p].todo)
        config == lgc[p].config
        l == CASE k = "logger" -> initDefaultLogger(config)
               [] k = "sysLogger" -> initSystemLogger(config)
               [] k = "tracingLogger" -> initTracingLogger(config)
    IN /\ lgc[p].pc = "f"
       /\ loggers' = [loggers EXCEPT ![k] = l]
       /\ built' = Append(built, [kind |-> k, logger |-> l,
                                  config |-> config])
       /\ IF lgc[p].call = "GetLogger"
          THEN /\ initialLogLevel' = levelOf(config)
               /\ logLevel' = levelOf(config)
          ELSE UNCHANGED <<initialLogLevel, logLevel>>
       /\ lgc' = [lgc EXCEPT ![p].pc = "unlock"]
       /\ UNCHANGED <<onces, out, levelRest, notOnce>>

\* the deferred o.done.Store(1) and o.m.Unlock()
OnceUnlock(p) ==
    /\ lgc[p].pc = "unlock"
    /\ onces' = [onces EXCEPT ![Head(lgc[p].todo)] = [done |-> TRUE, m |-> 0]]
    /\ lgc' = [lgc EXCEPT ![p] = Advance(lgc[p])]
    /\ UNCHANGED <<loggers, built, out, levelVars, notOnce>>

\* GetLogger: return logger; InitLogger returns nothing
CallReturn(p) ==
    /\ lgc[p].pc = "ret"
    /\ out' = [op |-> lgc[p].call,
               result |-> IF lgc[p].call = "InitLogger" THEN Nil
                          ELSE loggers[OncesOf(lgc[p].call)[1]]]
    /\ lgc' = [lgc EXCEPT ![p] = [pc |-> "idle"]]
    /\ UNCHANGED <<loggers, onces, built, levelVars, notOnce>>

OnceCalls == {"GetLogger", "InitLogger"}

LoggerCall ==
    \/ \E p \in Procs, call \in OnceCalls :
          \E config \in ConfigsOf(call) : CallBegin(p, call, config)
    \/ \E p \in Procs : InitLoggerLevel(p)
    \/ \E p \in Procs : CallReturn(p)

LoggerOnce ==
    \/ \E p \in Procs : OnceFast(p)
    \/ \E p \in Procs : OnceLock(p)
    \/ \E p \in Procs : OnceF(p)
    \/ \E p \in Procs : OnceUnlock(p)

NextOnce == LoggerCall \/ LoggerOnce

SpecOnce == Init /\ [][NextOnce]_vars

\* the constructions of the logger of kind k
BuiltOf(k) == {i \in 1..Len(built) : built[i].kind = k}

\* C20: however GetLogger and InitLogger calls interleave, each of the
\* default, system and tracing loggers is built at most once and, once
\* built, the package variable holds that logger for good (a later
\* InitLogger does not replace it); every GetLogger call returns the one
\* default logger built, never nil.
C20_LazyInitOnce ==
    /\ \A k \in LoggerKinds :
          /\ Cardinality(BuiltOf(k)) <= 1
          /\ loggers[k] = Nil <=> BuiltOf(k) = {}
          /\ \A i \in BuiltOf(k) : loggers[k] = built[i].logger
    /\ out.op = "GetLogger" =>
          /\ out.result # Nil
          /\ BuiltOf("logger") # {}
          /\ \A i \in BuiltOf("logger") : out.result = built[i].logger

\* GetLogger returned the logger an InitLogger call built, while another
\* InitLogger call with another Config has gone through all three Onces
C20_Witness ==
    /\ out.op = "GetLogger"
    /\ out.result.files = {"test"}
    /\ Len(built) = 3
    /\ \E p \in Procs :
          /\ lgc[p].pc = "ret"
          /\ lgc[p].call = "InitLogger"
          /\ lgc[p].config.LogFileName # "test"

\* ------------------------------------------------------------------------
\* Split-level routing
\* ------------------------------------------------------------------------
\* the Configs handed to InitLogger: every SplitLevel, valid or not, with and
\* without a file name, and one sent to standard output
SplitLevels == {SplitDebug, SplitInfo, SplitWarn, SplitError, SplitNone, "",
                "fatal"}
SplitConfigs ==
    {[defaultConfig EXCEPT !.SplitLevel = s, !.LogFileName = n] :
         s \in SplitLevels, n \in {"", "test"}}
    \cup {[defaultConfig EXCEPT !.SplitLevel = SplitInfo,
                                !.PrintToStd = PrintToStd_USERLOG]}

\* logger.Debug .. logger.Fatal: the Tee hands a record of level lvl to every
\* core whose level enabler accepts lvl
Write(lvl) ==
    /\ loggers["logger"] # Nil
    /\ usr.pc = "idle"
    /\ out' = [op |-> "Write", level |-> lvl, cur |-> GetLevel,
               taken |-> {i \in DOMAIN loggers["logger"].cores :
                             LefEnabled(loggers["logger"].cores[i].Lef, lvl)}]
    /\ UNCHANGED <<notLogger, loggerVars>>

\* InitLogger is called once, at start-up, by the main goroutine
SplitInit ==
    \/ \E config \in SplitConfigs :
          loggers["logger"] = Nil /\ CallBegin(1, "InitLogger", config)
    \/ InitLoggerLevel(1)
    \/ OnceFast(1)
    \/ OnceLock(1)
    \/ OnceF(1)
    \/ OnceUnlock(1)
    \/ CallReturn(1)

SplitUse ==
    \/ \E l \in SetLevels : lastSet.n < MaxSetLevel /\ SetLevelBegin(l, 0)
    \/ SetLevelStore
    \/ \E i \in DOMAIN RecordLevels : Write(RecordLevels[i])

NextSplit == SplitInit \/ SplitUse

SpecSplit == Init /\ [][NextSplit]_vars

\* the Config the default logger was built from
LoggerConfig == built[CHOOSE i \in BuiltOf("logger") : TRUE].config

\* the file a record of level lvl belongs to under split level s: the names
\* are those of the default table
SplitFileOf(lvl, s, defaultFile) ==
    IF lvl < s THEN defaultFile
    ELSE IF lvl < ErrorLvl
         THEN (DebugLvl :> "debug" @@ InfoLvl :> "info" @@ WarnLvl :> "warn")[lvl]
         ELSE "error"

TypeRoot ==
    /\ scs = <<>>
    /\ \E sco \in AllSCO, draw \in SamplerDraws, ts \in TimeStamps :
          GenRoot(sco, draw, ts, Rep(0, 5), Rep(0, 5))

NextType == TypeRoot \/ Derive

SpecType == Init /\ [][NextType]_vars

\* what the three classifiers say of sc
TypeClass(sc) ==
    <<IsSpanContextDebug(sc), IsSpanContextFromStressTest(sc),
      IsSpanContextShadow(sc)>>

\* C22: for every combination of IsDebug, IsFromStressTest and IsShadow, at
\* most one of IsSpanContextDebug, IsSpanContextFromStressTest and
\* IsSpanContextShadow is true of the root, it is the one of the first option
\* set in the order debug, stress-test, shadow, none is true when no option
\* is set, and every context derived from the root is classified as the root.
C22_TypeExclusive ==
    /\ out.op = "NewSpanContext" =>
          TypeClass(scs[out.idx]) =
              IF out.sco.IsDebug THEN <<TRUE, FALSE, FALSE>>
              ELSE IF out.sco.IsFromStressTest THEN <<FALSE, TRUE, FALSE>>
              ELSE IF out.sco.IsShadow THEN <<FALSE, FALSE, TRUE>>
              ELSE <<FALSE, FALSE, FALSE>>
    /\ \A j \in Instances :
          /\ ChainStart(j) = 1
          /\ TypeClass(scs[j]) = TypeClass(scs[1])
          /\ Cardinality({k \in 1..3 : TypeClass(scs[j])[k]}) <= 1

\* a grandchild of a root built with all three options and the critical
\* flag, classified as debug only
C22_Witness ==
    /\ \E j \in Instances :
          /\ Depth(j) = 2
          /\ TypeClass(scs[j]) = <<TRUE, FALSE, FALSE>>
          /\ IsSpanContextCritical(scs[j])
    /\ origin[1].kind = "root"

\* ------------------------------------------------------------------------
\* Layout of a root
\* ------------------------------------------------------------------------
\* the flag byte the options sco resolve to, bit by bit
FlagOf(sco, sampled) ==
    (IF sco.IsDebug THEN 1 ELSE 0)
    + (IF sampled THEN 2 ELSE 0)
    + (IF sco.IsCritical THEN 4 ELSE 0)
    + 32 * (IF sco.IsDebug THEN 0
            ELSE IF sco.IsFromStressTest THEN 3
            ELSE IF sco.IsShadow THEN 4
            ELSE 0)

\* the step is a return of NewSpanContext
RootMade ==
    /\ Len(scs') = Len(scs) + 1
    /\ origin'[Len(scs')].kind = "root"

\* C23: the SpanContext NewSpanContext returns has level byte 0, sequence
\* bytes 0, an all-zero ParentID and a child counter of 0; bytes 0-3 of its
\* TraceID are the fingerprint of the generator, which no step changes and
\* which all the roots made before carry too; byte 15 of the TraceID is the
\* flag byte the options resolve to.
C23_RootLayout ==
    /\ [][scg' = scg]_vars
    /\ [][RootMade =>
            /\ level(scs'[Len(scs')]) = 0
            /\ SequenceOf(scs'[Len(scs')]) = 0
            /\ ParentID(scs'[Len(scs')]) = Rep(0, spanIDSize)
            /\ scs'[Len(scs')].childSequenceID = 0
            /\ SubSeq(scs'[Len(scs')].id, 1, 4) = scg.instanceIDHash
            /\ \A i \in Instances :
                  origin[i].kind = "root" =>
                      SubSeq(scs[i].id, 1, 4) = scg.instanceIDHash
            /\ out'.op = "NewSpanContext"
            /\ scs'[Len(scs')].id[traceIDSize] =
                  FlagOf(out'.sco,
                         resolveSampled(out'.sco, scg, out'.draw).sampled)]_vars

\* two roots of one generator with different flag bytes, the first of them
\* having been used for a derivation in between
C23_Witness ==
    \E i, j \in Instances :
        /\ i < j
        /\ origin[i].kind = "root"
        /\ origin[j].kind = "root"
        /\ scs[i].childSequenceID > 0
        /\ FlagByte(i) # FlagByte(j)
        /\ SubSeq(scs[i].id, 1, 4) = SubSeq(scs[j].id, 1, 4)
        /\ out.op = "NewSpanContext"
        /\ out.idx = j

\* ------------------------------------------------------------------------
\* The random tail of a SpanID
\* ------------------------------------------------------------------------
\* what rand.Read can put into the five bytes: every pattern of zero and
\* non-zero bytes
TailDraws == [1..(spanIDSize - 3) -> {0, 9}]

\* a root, then NewChildSpanContext calls one after another, each with any
\* draw
TailRoot ==
    /\ scs = <<>>
    /\ \E d \in TailDraws, ts \in TimeStamps :
          GenRoot(DefaultSCO, 0, ts, Rep(0, 5), d)

TailChild ==
    \/ \E i \in 1..Len(scs) : Room(MaxUnitCtx + 1) /\ Lock(1, i)
    \/ ReadSeq(1)
    \/ IncSeq(1)
    \/ Unlock(1)
    \/ \E d \in TailDraws : BuildChild(1, d)

NextTail == TailRoot \/ TailChild

SpecTail == Init /\ [][NextTail]_vars

\* made by the generator or by NewChildSpanContext
Produced(i) == origin[i].kind \in {"root", "child"}

\* C24: no SpanContext made by the generator or by NewChildSpanContext has an
\* all-zero SpanID, whatever the random draw; so the ParentID of a child
\* derived from such a context is never all-zero, and among these contexts
\* an all-zero ParentID is found on roots only.
C24_SpanIDNeverZero ==
    \A i \in Instances :
        Produced(i) =>
            /\ SpanID(scs[i]) # Rep(0, spanIDSize)
            /\ SubSeq(scs[i].id, traceIDSize + 4, traceIDSize + spanIDSize)
                   # Rep(0, spanIDSize - 3)
            /\ origin[i].kind = "child" =>
                  /\ ParentID(scs[i]) = SpanID(scs[origin[i].of])
                  /\ ParentID(scs[i]) # Rep(0, spanIDSize)
            /\ ParentID(scs[i]) = Rep(0, spanIDSize) => origin[i].kind = "root"

\* a root whose draw was all zero, and a child of it
C24_Witness ==
    \E i, j \in Instances :
        /\ origin[i].kind = "root"
        /\ SpanID(scs[i]) = <<0, 0, 0, 0, 0, 0, 0, 1>>
        /\ origin[j].kind = "child"
        /\ origin[j].of = i
        /\ ParentID(scs[j]) = <<0, 0, 0, 0, 0, 0, 0, 1>>
        /\ SpanID(scs[j]) = <<1, 0, 0, 0, 0, 0, 0, 1>>

\* ------------------------------------------------------------------------
\* getRandomBytes on its own
\* ------------------------------------------------------------------------
\* what rand.Read can put into a slice of up to five bytes
FillDraws == UNION {[1..n -> {0, 1, 255}] : n \in 0..(spanIDSize - 3)}

\* getRandomBytes(bs) with rand.Read having drawn d
RandomFill(d) ==
    /\ out' = [op |-> "getRandomBytes", drawn |-> d,
               result |-> getRandomBytes(d)]
    /\ UNCHANGED <<traceVars, notTrace>>

NextRandom == \E d \in FillDraws : RandomFill(d)

SpecRandom == Init /\ [][NextRandom]_vars

\* C25: getRandomBytes changes the drawn bytes exactly when all of them are
\* zero, and then sets the last byte to 1; a draw with a non-zero byte comes
\* back as drawn.
C25_OnlyAllZeroAltered ==
    (out.op = "getRandomBytes" /\ Len(out.drawn) > 0) =>
        /\ out.result # out.drawn <=> \A k \in DOMAIN out.drawn : out.drawn[k] = 0
        /\ out.result # out.drawn =>
              out.result = [out.drawn EXCEPT ![Len(out.drawn)] = 1]

\* ------------------------------------------------------------------------
\* The counter of each instance
\* ------------------------------------------------------------------------
\* roots, concurrent derivation and parsing of the instances alive
CounterRoot ==
    /\ Room(MaxCtx)
    /\ \E ts \in TimeStamps : GenRoot(DefaultSCO, 0, ts, Rep(0, 5), Rep(0, 5))

NextCounter == CounterRoot \/ Derive \/ Reparse

SpecCounter == Init /\ [][NextCounter]_vars

\* instance i was made by parsing the bytes or the string of another
Parsed(i) == origin[i].kind \in {"bytes", "string"}

\* C26: a step of NewChildSpanContext on instance p changes the counter of p
\* only, no identifier byte of any instance ever changes, every instance
\* returned - child, root or parsed - starts with counter 0 whatever the
\* counter of the instance it comes from, and the first child of an instance
\* has sequence 0.
C26_CountersPerInstance ==
    /\ [][/\ Len(scs') >= Len(scs)
          /\ \A i \in Instances :
                /\ scs'[i].id = scs[i].id
                /\ scs'[i].childSequenceID # scs[i].childSequenceID =>
                      /\ \E p \in Procs : tgt[p] = i /\ pc[p] = "read"
                                                     /\ pc'[p] = "inc"
                      /\ \A k \in Instances \ {i} :
                            scs'[k].childSequenceID = scs[k].childSequenceID
          /\ \A i \in (1..Len(scs')) \ Instances :
                scs'[i].childSequenceID = 0]_vars
    /\ [](\A i \in Instances :
             scs[i].childSequenceID > 0 =>
                 \/ \E j \in Children(i) : SequenceOf(scs[j]) = 0
                 \/ \E p \in Procs : /\ tgt[p] = i /\ cur[p] = 0
                                     /\ pc[p] \in {"inc", "unlocked"})

\* an instance whose counter stands at 1 after the derivation of a child, and
\* an instance parsed from its bytes afterwards, equal in all its bytes, whose
\* counter is 0
C26_Witness ==
    \E i, j, k \in Instances :
        /\ j \in Children(i)
        /\ scs[i].childSequenceID = 1
        /\ scs[j].childSequenceID = 0
        /\ j < k
        /\ Parsed(k)
        /\ origin[k].of = i
        /\ scs[k].id = scs[i].id
        /\ scs[k].childSequenceID = 0

\* ------------------------------------------------------------------------
\* The sequence numbers of one parent, call after call
\* ------------------------------------------------------------------------
\* the counter of the parent when the calls begin: fresh, or after 65535
\* earlier calls whose children are no longer held
SeqStarts == {0, 2 ^ 16 - 1}

\* one root, its counter at c
InitSeq ==
    /\ InitButInstances(InitLevel)
    /\ \E c \in SeqStarts, ts \in TimeStamps :
          scs = <<[NewSpanContext(scg, DefaultSCO, 0, ts, Rep(0, 5), Rep(0, 5))
                      EXCEPT !.childSequenceID = c]>>
    /\ origin = <<[kind |-> "root", of |-> 0]>>

\* one goroutine calling NewChildSpanContext on the root, call after call
NextSeq ==
    \/ Room(MaxCtx) /\ Lock(1, 1)
    \/ ReadSeq(1)
    \/ IncSeq(1)
    \/ Unlock(1)
    \/ \E d \in RandDraws : BuildChild(1, d)

SpecSeq == InitSeq /\ [][NextSeq]_vars

\* b is the child returned by the call after the one that returned a
NextChild(a, b) ==
    /\ a \in Children(1)
    /\ b \in Children(1)
    /\ a < b
    /\ ~\E c \in Children(1) : a < c /\ c < b

\* C27 as stated: the sequence numbers of the children of one parent, made
\* call after call, increase strictly in call order and none comes twice.
C27_StrictlyIncreasing ==
    \A a, b \in Children(1) :
        a < b => SequenceOf(scs[a]) < SequenceOf(scs[b])

\* C27 amended: the sequence number increases from one call to the next
\* except after 65535, where the 16-bit counter wraps and the next call
\* gets 0; within 65536 calls no value comes twice.
C27_IncreasingUntilWrap ==
    /\ \A a, b \in Children(1) :
          NextChild(a, b) =>
              \/ SequenceOf(scs[a]) < SequenceOf(scs[b])
              \/ SequenceOf(scs[a]) = 2 ^ 16 - 1 /\ SequenceOf(scs[b]) = 0
    /\ \A a, b \in Children(1) :
          a # b => SequenceOf(scs[a]) # SequenceOf(scs[b])

\* the call after the one that got 65535 got 0
C27_Witness ==
    \E a, b \in Children(1) :
        /\ NextChild(a, b)
        /\ SequenceOf(scs[a]) = 2 ^ 16 - 1
        /\ SequenceOf(scs[b]) = 0
        /\ scs[1].childSequenceID = 1

\* ------------------------------------------------------------------------
\* span.go: the methods of spanContext that read the flag byte
\* ------------------------------------------------------------------------
\* IsDebug taking bit 0 for the debug flag whatever the marker bits are
spanContextIsDebugAnyFormat(sc) ==
    \/ And8(sc.id[traceIDSize], traceFlagOldDebug) = traceFlagOldDebug
    \/ And8(sc.id[traceIDSize], typeMarkerMask) = typeMarkerForDebug

\* (sc *spanContext) IsDebug
spanContextIsDebug(sc) ==
    IF isOldFormat(sc)
           /\ And8(sc.id[traceIDSize], traceFlagOldDebug) = traceFlagOldDebug
    THEN TRUE
    ELSE And8(sc.id[traceIDSize], typeMarkerMask) = typeMarkerForDebug

\* (sc *spanContext) IsFromStressTest
spanContextIsFromStressTest(sc) ==
    And8(sc.id[traceIDSize], typeMarkerMask) = typeMarkerForStressTest

\* (sc *spanContext) IsSampled
spanContextIsSampled(sc) ==
    \/ And8(sc.id[traceIDSize], traceFlagSampled) = traceFlagSampled
    \/ spanContextIsDebug(sc)

\* (sc *spanContext) GetTypeMarker
spanContextGetTypeMarker(sc) ==
    And8(sc.id[traceIDSize], typeMarkerMask) \div (2 ^ flagBitsNonTypeMarker)

\* the four methods called on instance i
Methods(i) ==
    /\ out' = [op |-> "Methods", idx |-> i,
               debug |-> spanContextIsDebug(scs[i]),
               stress |-> spanContextIsFromStressTest(scs[i]),
               sampled |-> spanContextIsSampled(scs[i]),
               marker |-> spanContextGetTypeMarker(scs[i])]
    /\ UNCHANGED <<traceVars, notTrace>>

MethodCalls == \E i \in 1..Len(scs) : Methods(i)

NextMethods == FlagRoot \/ FlagParse \/ MethodCalls

SpecMethods == Init /\ [][NextMethods]_vars

\* C28: for each of the 256 values of the flag byte the methods IsDebug,
\* IsSampled, IsFromStressTest and GetTypeMarker of a SpanContext return what
\* the functions IsSpanContextDebug, IsSpanContextSampled,
\* IsSpanContextFromStressTest and GetTypeMarker return for it.
C28_MethodsAgreeWithDecoder ==
    out.op = "Methods" =>
        /\ out.debug = IsSpanContextDebug(scs[out.idx])
        /\ out.sampled = IsSpanContextSampled(scs[out.idx])
        /\ out.stress = IsSpanContextFromStressTest(scs[out.idx])
        /\ out.marker = GetTypeMarker(scs[out.idx])

\* the methods called on a context with the stress-test marker and bit 0
\* set: not debug, not sampled
C28_Witness ==
    /\ out.op = "Methods"
    /\ FlagByte(out.idx) = typeMarkerForStressTest + traceFlagOldDebug
    /\ ~out.debug
    /\ ~out.sampled
    /\ out.stress
    /\ out.marker = 3

\* ------------------------------------------------------------------------
\* Stale reset timers
\* ------------------------------------------------------------------------
\* the live environment after initLogLevel: before the first SetLevel call,
\* or after maxResetVer calls SetLevel(DebugLvl, maxResetLvlDur) made within
\* that duration: the timers of the first and of the last call are pending,
\* those of the calls in between have fired and found a newer version
InitStale ==
    /\ env = "live"
    /\ initialLogLevel = InfoLvl
    /\ cbs = {}
    /\ usr = [pc |-> "idle"]
    /\ \/ /\ logLevel = InfoLvl
          /\ resetVer = 0
          /\ timers = {}
          /\ lastSet = [n |-> 0, level |-> InfoLvl, timer |-> 0]
       \/ /\ logLevel = DebugLvl
          /\ resetVer = maxResetVer
          /\ timers = {[id |-> 1, ver |-> 1, duration |-> maxResetLvlDur],
                       [id |-> maxResetVer, ver |-> maxResetVer,
                        duration |-> maxResetLvlDur]}
          /\ lastSet = [n |-> maxResetVer, level |-> DebugLvl,
                        timer |-> maxResetVer]

StaleSet ==
    \/ \E l \in SetLevels, d \in Durations :
          lastSet.n % maxResetVer < MaxSetLevel /\ SetLevelBegin(l, d)
    \/ SetLevelAdd
    \/ SetLevelAfterFunc
    \/ SetLevelStore

NextStale == StaleSet \/ LevelReset

InitStaleTimers ==
    /\ scs = <<>>
    /\ origin = <<>>
    /\ InitButInstances(InitStale)

SpecStale == InitStaleTimers /\ [][NextStale]_vars

\* the number of SetLevel calls of the user that have returned
CallsReturned == IF usr.pc = "idle" THEN lastSet.n ELSE lastSet.n - 1

\* C29: in the live environment the callback of a reset timer changes the
\* log level only if no SetLevel call made after the one that armed the
\* timer has returned: a stale timer neither ends a newer period below Info
\* nor replaces a level set afterwards, however many calls were made (the
\* version wrapping past maxResetVer included) and however the callback
\* interleaves with SetLevel.
C29_StaleTimerHarmless ==
    [][\A c \in cbs :
           (c.pc = "setlevel" /\ c \notin cbs' /\ logLevel' # logLevel)
               => c.id >= CallsReturned]_vars

\* ------------------------------------------------------------------------
\* The name table under SetLogFileName calls on the split levels
\* ------------------------------------------------------------------------
\* the four levels a log can be split at
SplitNameLevels == {levelMap[s] : s \in DOMAIN levelMap}

NextSplitNames ==
    \E lvl \in SplitNameLevels, newName \in NewNames :
        SetLogFileName(lvl, newName)

SpecSplitNames == Init /\ [][NextSplitNames]_vars

ReservedNames ==
    {SysLogFileName, SysErrorLogFileName, DefaultLogFileName,
     DefaultTracingFileName}

\* C30: after any sequence of SetLogFileName calls on the four split levels,
\* accepted or refused, the names of the levels in the name table are
\* pairwise distinct and none is a reserved name (sys, sys_error, server,
\* traffic_recording) or empty.
C30_NamesStayDistinct ==
    /\ DOMAIN nameMap = SplitNameLevels
    /\ \A a, b \in DOMAIN nameMap : a # b => nameMap[a] # nameMap[b]
    /\ \A a \in DOMAIN nameMap : nameMap[a] \notin ReservedNames \cup {""}

\* the debug level has taken over the name info after the info level moved
\* to another name, and a call asking for the name warn was refused
C30_Witness ==
    /\ out.op = "SetLogFileName"
    /\ ~out.result
    /\ out.name = "warn"
    /\ out.level = ErrorLvl
    /\ nameMap[DebugLvl] = "info"
    /\ nameMap[InfoLvl] = "myInfo"
    /\ nameMap[WarnLvl] = "warn"
====
